---------------------------- MODULE Spec2Model ----------------------------
(***************************************************************************)
(* Verification model of the treasure-hunt backend services:               *)
(*   - TrustScorer            (anti-cheat/app/models/trust_scorer.py)      *)
(*   - PatternAnalyzer        (anti-cheat/app/services/pattern_analyzer.py)*)
(*   - FraudDetector          (anti-cheat/app/services/fraud_detector.py)  *)
(*   - LocationVerificationService (.../services/location_verification.py) *)
(*   - AdvancedBehaviorAnalyzer (.../models/advanced_behavior_analyzer.py) *)
(*   - AdvancedClueGenerator  (clue-generator/.../advanced_clue_generator) *)
(*                                                                         *)
(* Numbers.  Every score of the Python code is a float.  The model keeps   *)
(* scores as integers in thousandths (1000 stands for 1.0); a division is  *)
(* an integer division rounding down.  Weights are kept in hundredths.     *)
(***************************************************************************)
EXTENDS Integers, Sequences, FiniteSets, TLC

VARIABLES
    now,            \* TrustScorer: datetime.utcnow(), in ticks
    trust_history,  \* TrustScorer.trust_history: player_id -> {timestamp, score}
    trust_out,      \* outcome of the last calculate_trust_score call
    ncalls,         \* number of calculate_trust_score calls made so far
    scored,         \* player ids for which a call reached the history write
    call_times,     \* per player: when calculate_trust_score was called for it
    pattern_out,    \* PatternAnalyzer: result of the last analyze_behavior_patterns
    player_patterns,\* PatternAnalyzer.player_patterns: player -> pattern -> records
    global_patterns,\* PatternAnalyzer.global_patterns: pattern -> timestamps
    nanalyses,      \* number of analyze_behavior_patterns calls made so far
    coord_out,      \* _is_rounded_coordinate: arguments and result of the last call
    loc_out,        \* LocationVerificationService: result of the last verification
    clue_now,       \* AdvancedClueGenerator: the clock, in seconds
    clue_cache,     \* the Redis store: cache key -> value and expiry time
    generation_count, \* AdvancedClueGenerator.generation_count
    cache_hits,     \* AdvancedClueGenerator.cache_hits
    clue_out,       \* outcome of the last generate_contextual_clue call
    nclue_calls,    \* number of generate_contextual_clue calls made so far
    ver_pc,         \* comprehensive_verification: idle, gathering or done
    ver_in,         \* the request: player_data and location_data
    ver_results,    \* what gather holds for each of the five sub-checks
    ver_out,        \* what the /comprehensive-verification endpoint answers
    ba_trust_scores,       \* AdvancedBehaviorAnalyzer.trust_scores
    ba_behavior_baselines, \* AdvancedBehaviorAnalyzer.behavior_baselines
    anomaly_model,        \* AnomalyDetector.anomaly_model, the outlier model
    anomaly_out,          \* what detect_behavior_anomalies returned last
    anomaly_model_calls,  \* how often the outlier model has been asked
    ndetections,          \* number of detect_behavior_anomalies calls made so far
    gemini_available,  \* GeminiService.available
    gemini_out,        \* outcome of the last generate_content call
    gemini_api_calls,  \* requests that reached the external API
    gemini_failures,   \* generate_content calls that raised
    ngemini_calls,     \* number of generate_content calls made so far
    move_history,  \* the location history submitted to the movement checks
    move_lv,       \* what verify_movement_patterns returned
    move_fd,       \* what _check_impossible_movements returned
    move_ba,       \* what _verify_movement_plausibility returned
    move_pa,       \* what _detect_impossible_movements returned
    dist_pair,  \* the pair of points given to the distance functions
    dist_lv,    \* what _calculate_distance returned
    dist_ba,    \* what _calculate_haversine_distance returned
    variants_out,  \* what _generate_clue_variants and _select_best_variant returned
    behavior_profiles,  \* AnomalyDetector.behavior_profiles: player_id -> profile
    profile_arrivals,   \* every update_behavior_profile call per player, by its time
    prompt_history,     \* PromptEngine.prompt_history
    prompt_arrivals,    \* every _log_prompt call, by its time
    retry_run,    \* the wrapper call: position, arguments, loop variable, outcome
    retry_trace,  \* the invocations and sleeps of the call, in order
    suspicious_activities,  \* FraudDetector.suspicious_activities: digest -> entry
    fraud_out,              \* the response of the last /detect-fraud-patterns call
    nfraud,                 \* calls made so far, the clock of the entries
    clue_log   \* the generate_contextual_clue calls so far: request and outcome

trustVars == <<now, trust_history, trust_out, ncalls, scored, call_times>>

patternVars == <<pattern_out, player_patterns, global_patterns, nanalyses>>

coordVars == <<coord_out>>

locationVars == <<loc_out>>

clueVars == <<clue_now, clue_cache, generation_count, cache_hits, clue_out, nclue_calls>>

verifyVars == <<ver_pc, ver_in, ver_results, ver_out, ba_trust_scores, ba_behavior_baselines>>

anomalyVars == <<anomaly_model, anomaly_out, anomaly_model_calls, ndetections>>

geminiVars == <<gemini_available, gemini_out, gemini_api_calls, gemini_failures, ngemini_calls>>

moveVars == <<move_history, move_lv, move_fd, move_ba, move_pa>>

distanceVars == <<dist_pair, dist_lv, dist_ba>>

variantsVars == <<variants_out>>

historyVars == <<behavior_profiles, profile_arrivals, prompt_history, prompt_arrivals>>

retryVars == <<retry_run, retry_trace>>

fraudVars == <<suspicious_activities, fraud_out, nfraud>>

shareVars == <<clue_log>>

vars == <<trustVars, patternVars, coordVars, locationVars, clueVars, verifyVars, anomalyVars, geminiVars, moveVars, distanceVars, variantsVars, historyVars, retryVars, fraudVars, shareVars>>

\* the state of the other services, which an operation of one service leaves alone
notTrustVars == <<patternVars, coordVars, locationVars, clueVars, verifyVars, anomalyVars, geminiVars, moveVars, distanceVars, variantsVars, historyVars, retryVars, fraudVars, shareVars>>

notPatternVars == <<trustVars, coordVars, locationVars, clueVars, verifyVars, anomalyVars, geminiVars, moveVars, distanceVars, variantsVars, historyVars, retryVars, fraudVars, shareVars>>

notCoordVars == <<trustVars, patternVars, locationVars, clueVars, verifyVars, anomalyVars, geminiVars, moveVars, distanceVars, variantsVars, historyVars, retryVars, fraudVars, shareVars>>

notLocationVars == <<trustVars, patternVars, coordVars, clueVars, verifyVars, anomalyVars, geminiVars, moveVars, distanceVars, variantsVars, historyVars, retryVars, fraudVars, shareVars>>

notClueVars == <<trustVars, patternVars, coordVars, locationVars, verifyVars, anomalyVars, geminiVars, moveVars, distanceVars, variantsVars, historyVars, retryVars, fraudVars, shareVars>>

notVerifyVars == <<trustVars, patternVars, coordVars, locationVars, clueVars, anomalyVars, geminiVars, moveVars, distanceVars, variantsVars, historyVars, retryVars, fraudVars, shareVars>>

notAnomalyVars == <<trustVars, patternVars, coordVars, locationVars, clueVars, verifyVars, geminiVars, moveVars, distanceVars, variantsVars, historyVars, retryVars, fraudVars, shareVars>>

notGeminiVars == <<trustVars, patternVars, coordVars, locationVars, clueVars, verifyVars, anomalyVars, moveVars, distanceVars, variantsVars, historyVars, retryVars, fraudVars, shareVars>>

notMoveVars == <<trustVars, patternVars, coordVars, locationVars, clueVars, verifyVars, anomalyVars, geminiVars, distanceVars, variantsVars, historyVars, retryVars, fraudVars, shareVars>>

notDistanceVars == <<trustVars, patternVars, coordVars, locationVars, clueVars, verifyVars, anomalyVars, geminiVars, moveVars, variantsVars, historyVars, retryVars, fraudVars, shareVars>>

notVariantsVars == <<trustVars, patternVars, coordVars, locationVars, clueVars, verifyVars, anomalyVars, geminiVars, moveVars, distanceVars, historyVars, retryVars, fraudVars, shareVars>>

notHistoryVars == <<trustVars, patternVars, coordVars, locationVars, clueVars, verifyVars, anomalyVars, geminiVars, moveVars, distanceVars, variantsVars, retryVars, fraudVars, shareVars>>

notHistoryOrAnomalyVars == <<trustVars, patternVars, coordVars, locationVars, clueVars, verifyVars, geminiVars, moveVars, distanceVars, variantsVars, retryVars, fraudVars, shareVars>>

notRetryVars == <<trustVars, patternVars, coordVars, locationVars, clueVars, verifyVars, anomalyVars, geminiVars, moveVars, distanceVars, variantsVars, historyVars, fraudVars, shareVars>>

notFraudVars == <<trustVars, patternVars, coordVars, locationVars, clueVars, verifyVars, anomalyVars, geminiVars, moveVars, distanceVars, variantsVars, historyVars, retryVars, shareVars>>

notShareVars == <<trustVars, patternVars, coordVars, locationVars, clueVars, verifyVars, anomalyVars, geminiVars, moveVars, distanceVars, variantsVars, historyVars, retryVars, fraudVars>>

notShareOrClueVars == <<trustVars, patternVars, coordVars, locationVars, verifyVars, anomalyVars, geminiVars, moveVars, distanceVars, variantsVars, historyVars, retryVars, fraudVars>>

-----------------------------------------------------------------------------
(* Generic helpers: the Python builtins the code relies on.                 *)

Min(a, b) == IF a <= b THEN a ELSE b

Max(a, b) == IF a >= b THEN a ELSE b

RECURSIVE SumSeq(_)
SumSeq(s) == IF s = <<>> THEN 0 ELSE Head(s) + SumSeq(Tail(s))

RECURSIVE SumSquares(_)
SumSquares(s) == IF s = <<>> THEN 0 ELSE Head(s) * Head(s) + SumSquares(Tail(s))

\* floor(sqrt(n)) by bisection on [lo, hi]
RECURSIVE IsqrtIn(_, _, _)
IsqrtIn(n, lo, hi) ==
    IF lo >= hi THEN lo
    ELSE LET mid == (lo + hi + 1) \div 2
         IN  IF mid * mid <= n THEN IsqrtIn(n, mid, hi) ELSE IsqrtIn(n, lo, mid - 1)

Isqrt(n) == IF n <= 0 THEN 0 ELSE IsqrtIn(n, 0, 46340)

\* np.std(x) / np.mean(x) in thousandths, for a sequence with sum > 0:
\* std/mean = sqrt(n*sum(x^2) - sum(x)^2) / sum(x)
CoeffOfVariation(s) ==
    (Isqrt((Len(s) * SumSquares(s) - SumSeq(s) * SumSeq(s)) * 10000) * 10) \div SumSeq(s)

SeqRange(s) == {s[i] : i \in 1..Len(s)}

-----------------------------------------------------------------------------
(* TrustScorer                                                              *)

\* model bounds
MaxTick == 3

MaxCalls == 2

\* one day, in ticks of the model's clock (a tick is half a day)
TicksPerDay == 2

PlayerIds == {"p1", "p2"}

\* player_id as player_data.get('player_id') yields it; "" stands for a
\* missing or empty id (falsy in Python)
NoPlayer == ""

\* self.trust_weights, in hundredths
trust_weights ==
    [behavior_consistency |-> 25, location_verification |-> 20,
     historical_performance |-> 20, social_behavior |-> 15,
     device_reputation |-> 10, temporal_patterns |-> 10]

\* self.decay_factor = 0.95, in hundredths
decay_factor == 95

\* A player_data dictionary in which every key takes the default the code
\* supplies through dict.get when the key is absent.
\* 'malformed' names the component one of whose keys holds None where the
\* code expects a number or a list ("" when every key is well formed).
DefaultPlayerData ==
    [solving_times |-> <<>>, success_pattern |-> <<>>,
     movement_consistency |-> 700,
     success_rate |-> 500, account_age_days |-> 1,
     achievements |-> 0, total_play_time |-> 1,
     collaboration_score |-> 500, communication_quality |-> 500,
     reports_received |-> 0, positive_feedback |-> 0,
     device_consistency |-> 800, connection_stability |-> 700,
     location_consistency |-> 600,
     usual_playing_hours |-> TRUE, session_length_consistency |-> 700,
     play_frequency_consistency |-> 600,
     malformed |-> ""]

\* verification_results['location'] with the defaults of dict.get
\* is_dict is FALSE when 'location' holds None
DefaultLocationAnalysis ==
    [is_dict |-> TRUE,
     gps_trust |-> 500, movement_plausibility |-> 500, spoofing_indicators |-> 0]

calculate_behavior_consistency(pd) ==
    LET st == pd.solving_times
        time_consistency ==
            1000 - (IF SumSeq(st) > 0 THEN CoeffOfVariation(st) ELSE 1000)
        ind1 == IF Len(st) > 2 THEN <<Max(0, time_consistency)>> ELSE <<>>
        sp == pd.success_pattern
        ind2 == IF Len(sp) > 0
                THEN <<1000 - (Cardinality(SeqRange(sp)) * 1000) \div Len(sp)>>
                ELSE <<>>
        inds == ind1 \o ind2 \o <<pd.movement_consistency>>
    IN  SumSeq(inds) \div Len(inds)

calculate_location_trust(la) ==
    LET spoofing_penalty == 1000 - la.spoofing_indicators * 200
    IN  (la.gps_trust + la.movement_plausibility + Max(100, spoofing_penalty)) \div 3

\* achievements / (play_time / 3600) divides by zero when total_play_time = 0
HistoricalRaises(pd) == pd.total_play_time = 0

\* the six component scores, in the order calculate_trust_score computes them
ComponentOrder ==
    <<"behavior_consistency", "location_verification", "historical_performance",
      "social_behavior", "device_reputation", "temporal_patterns">>

\* len(None), None.get, None / 100, None * 0.1 and np.mean over None raise
ComponentRaises(c, pd, la) ==
    CASE c = "location_verification" -> ~la.is_dict
      [] c = "historical_performance" -> HistoricalRaises(pd) \/ pd.malformed = c
      [] OTHER -> pd.malformed = c

\* the component whose computation ends the call, "" when none raises
RaisingComponent(pd, la) ==
    LET raising == SelectSeq(ComponentOrder, LAMBDA c : ComponentRaises(c, pd, la))
    IN  IF Len(raising) = 0 THEN "" ELSE Head(raising)

calculate_historical_performance(pd) ==
    LET longevity_bonus == Min(300, pd.account_age_days * 10)
        achievement_density ==
            Min(1000, (pd.achievements * 3600 * 1000) \div pd.total_play_time)
    IN  (pd.success_rate + (700 + longevity_bonus) + achievement_density) \div 3

calculate_social_behavior(pd) ==
    LET reports_penalty == 1000 - Min(500, pd.reports_received * 100)
        feedback_bonus == Min(200, pd.positive_feedback * 50)
    IN  (pd.collaboration_score + pd.communication_quality
         + reports_penalty + (800 + feedback_bonus)) \div 4

calculate_device_reputation(pd) ==
    (pd.device_consistency + pd.connection_stability + pd.location_consistency) \div 3

calculate_temporal_consistency(pd) ==
    ((IF pd.usual_playing_hours THEN 900 ELSE 500)
     + pd.session_length_consistency + pd.play_frequency_consistency) \div 3

component_scores(pd, la) ==
    [behavior_consistency |-> calculate_behavior_consistency(pd),
     location_verification |-> calculate_location_trust(la),
     historical_performance |-> calculate_historical_performance(pd),
     social_behavior |-> calculate_social_behavior(pd),
     device_reputation |-> calculate_device_reputation(pd),
     temporal_patterns |-> calculate_temporal_consistency(pd)]

\* the loop "trust_score += component_scores[component] * weight"
WeightedTrust(cs) ==
    (cs.behavior_consistency * trust_weights.behavior_consistency
     + cs.location_verification * trust_weights.location_verification
     + cs.historical_performance * trust_weights.historical_performance
     + cs.social_behavior * trust_weights.social_behavior
     + cs.device_reputation * trust_weights.device_reputation
     + cs.temporal_patterns * trust_weights.temporal_patterns) \div 100

\* (now - last_update).days
DaysPassed(last_update, t) == (t - last_update) \div TicksPerDay

\* score * (self.decay_factor ** days_passed), one factor of 0.95 at a time
RECURSIVE Decay(_, _)
Decay(score, days) ==
    IF days <= 0 THEN score ELSE Decay((score * decay_factor) \div 100, days - 1)

\* the value _apply_trust_decay returns and stores
apply_trust_decay_score(history, player_id, current_score, t) ==
    IF player_id \in DOMAIN history
    THEN Decay(current_score, DaysPassed(history[player_id].timestamp, t))
    ELSE current_score

\* a history in which the first write for a player wins
FirstWriteWinsHistory(history, player_id, current_score, t) ==
    IF player_id = NoPlayer \/ player_id \in DOMAIN history
    THEN history
    ELSE [p \in DOMAIN history \cup {player_id} |->
            IF p = player_id THEN [timestamp |-> t, score |-> current_score]
            ELSE history[p]]

\* a history whose timestamp is written by the first call only
KeepStoredTimestamp(history, player_id, current_score, t) ==
    IF player_id = NoPlayer
    THEN history
    ELSE [p \in DOMAIN history \cup {player_id} |->
            IF p = player_id
            THEN [timestamp |-> IF p \in DOMAIN history
                                THEN history[p].timestamp ELSE t,
                  score |-> apply_trust_decay_score(history, player_id, current_score, t)]
            ELSE history[p]]

\* a history that is written for a missing player_id as well
RecordMissingId(history, player_id, current_score, t) ==
    [p \in DOMAIN history \cup {player_id} |->
        IF p = player_id
        THEN [timestamp |-> t,
              score |-> apply_trust_decay_score(history, player_id, current_score, t)]
        ELSE history[p]]

\* the trust_history _apply_trust_decay leaves behind
apply_trust_decay_history(history, player_id, current_score, t) ==
    IF player_id = NoPlayer
    THEN history
    ELSE [p \in DOMAIN history \cup {player_id} |->
            IF p = player_id
            THEN [timestamp |-> t,
                  score |-> apply_trust_decay_score(history, player_id, current_score, t)]
            ELSE history[p]]

apply_trust_decay(history, player_id, current_score, t) ==
    IF player_id = NoPlayer
    THEN current_score
    ELSE apply_trust_decay_score(history, player_id, current_score, t)

\* a clamp that forgets the lower bound
ClampUpperOnly(score) == Min(1000, score)

\* 'trust_score': max(0.0, min(1.0, trust_score))
ClampTrust(score) == Max(0, Min(1000, score))

determine_trust_level(score) ==
    IF score >= 900 THEN "excellent"
    ELSE IF score >= 800 THEN "high"
    ELSE IF score >= 700 THEN "good"
    ELSE IF score >= 600 THEN "fair"
    ELSE IF score >= 400 THEN "low"
    ELSE "restricted"

NoTrustOut ==
    [status |-> "none", error |-> "", player_id |-> NoPlayer, trust_score |-> 0, raw |-> 0,
     decayed |-> 0, had_prior |-> FALSE, prior_score |-> 0, days |-> 0, at |-> 0]

\* Inputs of a call: player_data dictionaries that differ from the defaults
\* in one respect each, among them values of very large magnitude.
Huge == 1000 * 1000

TrustPlayerInputs ==
    { DefaultPlayerData,
      [DefaultPlayerData EXCEPT !.movement_consistency = Huge],
      [DefaultPlayerData EXCEPT !.success_rate = -Huge],
      [DefaultPlayerData EXCEPT !.solving_times = <<10, 20, 60>>,
                                !.success_pattern = <<1, 1, 0, 1>>,
                                !.total_play_time = 7200, !.achievements = 1],
      [DefaultPlayerData EXCEPT !.total_play_time = 0] }

TrustLocationInputs ==
    { DefaultLocationAnalysis,
      [DefaultLocationAnalysis EXCEPT !.gps_trust = 1000,
                                      !.movement_plausibility = 1000,
                                      !.spoofing_indicators = 6] }

\* the record of the calls made for one player: the first and the latest
\* call, the latest call that returned, and whether every two consecutive
\* calls so far were less than a day apart
NoCalls ==
    [called |-> FALSE, was_scored |-> FALSE, first |-> 0, last |-> 0,
     last_scoring |-> 0, close |-> TRUE]

RecordCall(ct, t, returned) ==
    [called |-> TRUE,
     was_scored |-> ct.was_scored \/ returned,
     first |-> IF ct.called THEN ct.first ELSE t,
     last |-> t,
     last_scoring |-> IF returned THEN t ELSE ct.last_scoring,
     close |-> ct.close /\ (ct.called => t - ct.last < TicksPerDay)]

TrustInit ==
    /\ now = 0
    /\ trust_history = << >>
    /\ trust_out = NoTrustOut
    /\ ncalls = 0
    /\ scored = {}
    /\ call_times = [p \in PlayerIds |-> NoCalls]

\* calculate_trust_score(player_data, verification_results), the whole call
calculate_trust_score(player_id, pd, la) ==
    /\ ncalls' = ncalls + 1
    /\ call_times' =
          IF player_id = NoPlayer THEN call_times
          ELSE [call_times EXCEPT
                  ![player_id] = RecordCall(@, now, RaisingComponent(pd, la) = "")]
    /\ IF RaisingComponent(pd, la) # ""
       THEN \* the exception leaves the call before the history is touched
            /\ trust_out' = [NoTrustOut EXCEPT !.status = "raised",
                                               !.error = RaisingComponent(pd, la),
                                               !.player_id = player_id, !.at = now]
            /\ UNCHANGED <<trust_history, scored>>
       ELSE LET raw == WeightedTrust(component_scores(pd, la))
                had == player_id \in DOMAIN trust_history
                decayed == apply_trust_decay(trust_history, player_id, raw, now)
            IN  /\ trust_history' =
                        apply_trust_decay_history(trust_history, player_id, raw, now)
                /\ scored' = IF player_id = NoPlayer THEN scored
                             ELSE scored \cup {player_id}
                /\ trust_out' =
                     [status |-> "returned", error |-> "", player_id |-> player_id,
                      trust_score |-> ClampTrust(decayed), raw |-> raw,
                      decayed |-> decayed,
                      had_prior |-> had,
                      prior_score |-> IF had THEN trust_history[player_id].score ELSE 0,
                      days |-> IF had
                               THEN DaysPassed(trust_history[player_id].timestamp, now)
                               ELSE 0,
                      at |-> now]
    /\ UNCHANGED now
    /\ UNCHANGED notTrustVars

\* time passes between calls
Tick ==
    /\ now < MaxTick
    /\ now' = now + 1
    /\ UNCHANGED <<trust_history, trust_out, ncalls, scored, call_times>>
    /\ UNCHANGED notTrustVars

TrustCall ==
    /\ ncalls < MaxCalls
    /\ \E player_id \in PlayerIds \cup {NoPlayer}, pd \in TrustPlayerInputs,
          la \in TrustLocationInputs :
           calculate_trust_score(player_id, pd, la)

TrustNext == TrustCall \/ Tick

\* Repeated scoring of the same players: up to MaxDecayCalls calls, among
\* them calls that raise before the decay step.
MaxDecayCalls == 3

DecayPlayerInputs ==
    { DefaultPlayerData, [DefaultPlayerData EXCEPT !.total_play_time = 0] }
    \cup { [DefaultPlayerData EXCEPT !.malformed = ComponentOrder[i]] :
              i \in {1, 3, 4, 5, 6} }

DecayLocationInputs ==
    TrustLocationInputs \cup {[DefaultLocationAnalysis EXCEPT !.is_dict = FALSE]}

DecayCall ==
    /\ ncalls < MaxDecayCalls
    /\ \E player_id \in PlayerIds \cup {NoPlayer}, pd \in DecayPlayerInputs,
          la \in DecayLocationInputs :
           calculate_trust_score(player_id, pd, la)

DecayNext == DecayCall \/ Tick

-----------------------------------------------------------------------------
(* PatternAnalyzer                                                          *)

\* model bound: analyze_behavior_patterns calls in one behaviour
MaxAnalyses == 1

PatternNames ==
    <<"speed_hacking", "location_spoofing", "multiple_accounts",
      "automation_detection", "collaborative_cheating">>

\* _load_cheating_patterns: thresholds in thousandths, weights in hundredths
cheating_patterns ==
    [speed_hacking          |-> [threshold |-> 800, weight |-> 90],
     location_spoofing      |-> [threshold |-> 700, weight |-> 80],
     multiple_accounts      |-> [threshold |-> 600, weight |-> 70],
     automation_detection   |-> [threshold |-> 750, weight |-> 85],
     collaborative_cheating |-> [threshold |-> 650, weight |-> 60]]

\* np.mean(solving_times) < limit, for a non-empty list
MeanBelow(times, limit) == SumSeq(times) < limit * Len(times)

\* _calculate_distance of PatternAnalyzer: (lat_diff + lon_diff) * 111000 m,
\* coordinates kept in thousandths of a degree
Abs(x) == IF x < 0 THEN -x ELSE x

pa_calculate_distance(loc1, loc2) ==
    (Abs(loc1.lat - loc2.lat) + Abs(loc1.lon - loc2.lon)) * 111

\* _detect_impossible_movements: pairs with time_diff > 0 and speed > 100 m/s
RECURSIVE detect_impossible_movements(_)
detect_impossible_movements(h) ==
    IF Len(h) < 2 THEN 0
    ELSE LET prev == h[1]
             curr == h[2]
             time_diff == curr.timestamp - prev.timestamp
             hit == time_diff > 0
                    /\ pa_calculate_distance(prev, curr) > 100 * time_diff
         IN  (IF hit THEN 1 ELSE 0) + detect_impossible_movements(Tail(h))

\* _calculate_timing_consistency: max(0, 1 - std/mean), 0 for a zero mean
calculate_timing_consistency(times) ==
    IF Len(times) < 2 THEN 0
    ELSE IF SumSeq(times) = 0 THEN 0
    ELSE Max(0, 1000 - CoeffOfVariation(times))

\* np.std(click_intervals) < 0.1, intervals kept in milliseconds:
\* sqrt(n*sum(x^2) - sum(x)^2) / n < 100
StdBelowTenth(xs) ==
    Len(xs) * SumSquares(xs) - SumSeq(xs) * SumSeq(xs) < 10000 * Len(xs) * Len(xs)

has_mechanical_patterns(ip) ==
    \/ (Len(ip.click_intervals) > 3 /\ StdBelowTenth(ip.click_intervals))
    \/ ip.perfect_linearity

detect_information_sharing(cp) ==
    cp.message_frequency > 10 /\ cp.solution_sharing > 5

\* _calculate_behavioral_similarity: min(0.9, len(similar_players) * 0.1)
calculate_behavioral_similarity(ctx) ==
    IF ctx.similar_players = 0 THEN 0 ELSE Min(900, ctx.similar_players * 100)

\* _calculate_network_density for n connections, in thousandths
calculate_network_density(n) ==
    IF n < 2 THEN 0
    ELSE LET twice_max == n * (n - 1)      \* 2 * max_possible_connections
             twice_actual == Min(twice_max, 4 * n)
         IN  (twice_actual * 1000) \div twice_max

\* Each _analyze_* returns (min(1.0, score), evidence); evidence is kept as
\* the sequence of the checks that fired.
Step(cond, points, tag) == IF cond THEN [score |-> points, ev |-> <<tag>>]
                           ELSE [score |-> 0, ev |-> <<>>]

Combine(steps) ==
    [score |-> Min(1000, SumSeq([i \in 1..Len(steps) |-> steps[i].score])),
     evidence |-> IF Len(steps) = 3 THEN steps[1].ev \o steps[2].ev \o steps[3].ev
                  ELSE steps[1].ev \o steps[2].ev]

analyze_speed_hacking(pd, ctx) ==
    LET st == pd.solving_times
        fast == IF Len(st) > 0 /\ MeanBelow(st, 20)
                THEN [score |-> 800, ev |-> <<"extremely_fast">>]
                ELSE IF Len(st) > 0 /\ MeanBelow(st, 40)
                THEN [score |-> 500, ev |-> <<"very_fast">>]
                ELSE [score |-> 0, ev |-> <<>>]
        perfect == Step(pd.success_rate > 950 /\ Len(st) > 5, 300, "perfect_success")
    IN  Combine(<<fast, perfect>>)

analyze_location_spoofing(pd, ctx) ==
    LET ld == pd.location_data
    IN  Combine(<<Step(detect_impossible_movements(ld.movement_history) > 0,
                       600, "impossible_movements"),
                  Step(ld.gps_issues > 0, 400, "gps_inconsistencies"),
                  Step(ld.is_mock_provider, 800, "mock_provider")>>)

analyze_multiple_accounts(pd, ctx) ==
    Combine(<<Step(ctx.device_in_similar_devices, 500, "device_shared"),
              Step(ctx.accounts_per_ip > 3, 400, "ip_shared"),
              Step(calculate_behavioral_similarity(ctx) > 800, 300, "similar_behavior")>>)

\* an automation check in which movement efficiency alone is worth 0.8
AutomationEfficiencyOverweighted(pd, ctx) ==
    LET st == pd.solving_times
    IN  Combine(<<Step(Len(st) > 5 /\ calculate_timing_consistency(st) > 900,
                       700, "timing_consistency"),
                  Step(pd.movement_efficiency > 980, 800, "movement_efficiency"),
                  Step(has_mechanical_patterns(pd.interaction_patterns),
                       500, "mechanical_patterns")>>)

analyze_automation(pd, ctx) ==
    LET st == pd.solving_times
    IN  Combine(<<Step(Len(st) > 5 /\ calculate_timing_consistency(st) > 900,
                       700, "timing_consistency"),
                  Step(pd.movement_efficiency > 980, 600, "movement_efficiency"),
                  Step(has_mechanical_patterns(pd.interaction_patterns),
                       500, "mechanical_patterns")>>)

analyze_collaborative_cheating(pd, ctx) ==
    Combine(<<Step(detect_information_sharing(pd.communication_patterns),
                   500, "information_sharing"),
              Step(ctx.player_in_coordinated_actions, 400, "coordinated_solving"),
              Step(pd.social_connections > 10
                     /\ calculate_network_density(pd.social_connections) > 800,
                   300, "dense_network")>>)

analyze_single_pattern(pattern_name, pd, ctx) ==
    IF pattern_name = "speed_hacking" THEN analyze_speed_hacking(pd, ctx)
    ELSE IF pattern_name = "location_spoofing" THEN analyze_location_spoofing(pd, ctx)
    ELSE IF pattern_name = "multiple_accounts" THEN analyze_multiple_accounts(pd, ctx)
    ELSE IF pattern_name = "automation_detection" THEN analyze_automation(pd, ctx)
    ELSE IF pattern_name = "collaborative_cheating"
         THEN analyze_collaborative_cheating(pd, ctx)
    ELSE [score |-> 0, evidence |-> <<>>]

\* a strict comparison in place of "score >= threshold"
IsDetectedStrict(score, threshold) == score > threshold

\* "if score >= pattern_config['threshold']"
IsDetected(score, threshold) == score >= threshold

\* the loop of analyze_behavior_patterns over self.cheating_patterns.items():
\* acc holds pattern_scores, detected_patterns and evidence built so far
RECURSIVE AnalyzeLoop(_, _, _, _)
AnalyzeLoop(names, pd, ctx, acc) ==
    IF names = <<>> THEN acc
    ELSE LET name == Head(names)
             r == analyze_single_pattern(name, pd, ctx)
             hit == IsDetected(r.score, cheating_patterns[name].threshold)
             scores == [n \in DOMAIN acc.pattern_scores \cup {name} |->
                          IF n = name THEN r.score ELSE acc.pattern_scores[n]]
             evid == IF hit
                     THEN [n \in DOMAIN acc.evidence \cup {name} |->
                             IF n = name THEN r.evidence ELSE acc.evidence[n]]
                     ELSE acc.evidence
             det == IF hit THEN Append(acc.detected_patterns, name)
                    ELSE acc.detected_patterns
         IN  AnalyzeLoop(Tail(names), pd, ctx,
                         [pattern_scores |-> scores, detected_patterns |-> det,
                          evidence |-> evid])

EmptyAnalysis == [pattern_scores |-> << >>, detected_patterns |-> <<>>, evidence |-> << >>]

RECURSIVE WeightedSumOver(_, _)
WeightedSumOver(names, pattern_scores) ==
    IF names = <<>> THEN 0
    ELSE (IF Head(names) \in DOMAIN pattern_scores
          THEN pattern_scores[Head(names)] * cheating_patterns[Head(names)].weight
          ELSE 0)
         + WeightedSumOver(Tail(names), pattern_scores)

RECURSIVE TotalWeightOver(_, _)
TotalWeightOver(names, pattern_scores) ==
    IF names = <<>> THEN 0
    ELSE (IF Head(names) \in DOMAIN pattern_scores
          THEN cheating_patterns[Head(names)].weight ELSE 0)
         + TotalWeightOver(Tail(names), pattern_scores)

\* an average that divides by the number of patterns, not by the total weight
OverallRiskByCount(pattern_scores) ==
    IF DOMAIN pattern_scores = {} THEN 0
    ELSE WeightedSumOver(PatternNames, pattern_scores)
            \div (100 * Cardinality(DOMAIN pattern_scores))

\* _calculate_overall_risk: weighted_sum / total_weight, 0.0 for no scores
calculate_overall_risk(pattern_scores) ==
    IF DOMAIN pattern_scores = {} THEN 0
    ELSE IF TotalWeightOver(PatternNames, pattern_scores) > 0
    THEN WeightedSumOver(PatternNames, pattern_scores)
            \div TotalWeightOver(PatternNames, pattern_scores)
    ELSE 0

\* min(1.0, (data_points + location_points) / 20)
calculate_analysis_confidence(pd) ==
    Min(1000, ((Len(pd.solving_times) + Len(pd.location_data.movement_history)) * 1000)
                 \div 20)

\* "Keep only last 100 records per pattern", "Keep only last 1000 records"
PlayerPatternCap == 100

GlobalPatternCap == 1000

\* an oldest-first cut, where the code keeps the newest
OldestN(s, cap) == IF Len(s) > cap THEN SubSeq(s, 1, cap) ELSE s

\* s[-cap:] after an append
LastN(s, cap) == IF Len(s) > cap THEN SubSeq(s, Len(s) - cap + 1, Len(s)) ELSE s

\* _update_pattern_history for every pattern of one call
update_pattern_history(pp, player_id, pattern_scores, t) ==
    IF player_id = NoPlayer THEN pp
    ELSE [pp EXCEPT ![player_id] =
            [n \in DOMAIN pp[player_id] |->
                LastN(Append(pp[player_id][n],
                             [score |-> pattern_scores[n], timestamp |-> t]),
                      PlayerPatternCap)]]

\* _update_global_patterns
update_global_patterns(gp, detected, t) ==
    [n \in DOMAIN gp |->
        IF n \in SeqRange(detected) THEN LastN(Append(gp[n], t), GlobalPatternCap)
        ELSE gp[n]]

PatternNameSet == SeqRange(PatternNames)

PatternPlayers == {"p1"}

NoPatternOut ==
    [status |-> "none", overall_risk_score |-> 0, detected_patterns |-> <<>>,
     pattern_scores |-> << >>, evidence |-> << >>, confidence |-> 0,
     player_data |-> << >>]

\* Inputs.  solving_times in seconds; click_intervals in milliseconds;
\* coordinates in thousandths of a degree, timestamps in seconds.
NoInteraction == [click_intervals |-> <<>>, perfect_linearity |-> FALSE]

CleanLocation == [movement_history |-> <<>>, gps_issues |-> 0, is_mock_provider |-> FALSE]

PatternSolvingTimes ==
    { <<>>, <<10, 15>>, <<10, 11, 10, 11, 10, 11>>, <<5, 5, 5, 40, 40, 5>>, <<30, 35>> }

PatternInteractions ==
    { NoInteraction,
      [NoInteraction EXCEPT !.click_intervals = <<250, 250, 250, 250>>] }

ImpossibleMove ==
    [CleanLocation EXCEPT !.movement_history =
        << [lat |-> 0, lon |-> 0, timestamp |-> 0],
           [lat |-> 1000, lon |-> 0, timestamp |-> 60],
           [lat |-> 1001, lon |-> 0, timestamp |-> 120] >>]

MockLocation == [CleanLocation EXCEPT !.is_mock_provider = TRUE, !.gps_issues = 1]

NoContext ==
    [device_in_similar_devices |-> FALSE, accounts_per_ip |-> 0,
     similar_players |-> 0, player_in_coordinated_actions |-> FALSE]

SharedDevice == [NoContext EXCEPT !.device_in_similar_devices = TRUE]

FullContext ==
    [device_in_similar_devices |-> TRUE, accounts_per_ip |-> 4,
     similar_players |-> 9, player_in_coordinated_actions |-> TRUE]

NoSharing == [message_frequency |-> 0, solution_sharing |-> 0]

Sharing == [message_frequency |-> 11, solution_sharing |-> 6]

\* the fields the speed and automation checks read
PatternCoreInputs ==
    [solving_times : PatternSolvingTimes,
     success_rate : {500, 1000},
     movement_efficiency : {0, 990},
     interaction_patterns : PatternInteractions]

\* the fields the location, account and collaboration checks read, with the
\* game_context of the call
PatternRestInputs ==
    { [player_id |-> "p1", location_data |-> CleanLocation,
       communication_patterns |-> NoSharing, social_connections |-> 0,
       game_context |-> NoContext],
      [player_id |-> "p1", location_data |-> ImpossibleMove,
       communication_patterns |-> Sharing, social_connections |-> 0,
       game_context |-> SharedDevice],
      [player_id |-> "p1", location_data |-> MockLocation,
       communication_patterns |-> Sharing, social_connections |-> 11,
       game_context |-> FullContext],
      [player_id |-> NoPlayer, location_data |-> CleanLocation,
       communication_patterns |-> NoSharing, social_connections |-> 0,
       game_context |-> NoContext],
      [player_id |-> "p1", location_data |-> MockLocation,
       communication_patterns |-> NoSharing, social_connections |-> 11,
       game_context |-> NoContext],
      [player_id |-> NoPlayer, location_data |-> CleanLocation,
       communication_patterns |-> NoSharing, social_connections |-> 0,
       game_context |-> FullContext] }

PlayerDataOf(c, r) ==
    [player_id |-> r.player_id,
     solving_times |-> c.solving_times,
     success_rate |-> c.success_rate,
     movement_efficiency |-> c.movement_efficiency,
     interaction_patterns |-> c.interaction_patterns,
     location_data |-> r.location_data,
     communication_patterns |-> r.communication_patterns,
     social_connections |-> r.social_connections]

PatternInit ==
    /\ pattern_out = NoPatternOut
    /\ player_patterns = [p \in PatternPlayers |-> [n \in PatternNameSet |-> <<>>]]
    /\ global_patterns = [n \in PatternNameSet |-> <<>>]
    /\ nanalyses = 0

\* analyze_behavior_patterns(player_data, game_context), the whole call
analyze_behavior_patterns(pd, ctx) ==
    LET a == AnalyzeLoop(PatternNames, pd, ctx, EmptyAnalysis)
        t == nanalyses + 1
    IN  /\ nanalyses' = t
        /\ player_patterns' =
              update_pattern_history(player_patterns, pd.player_id, a.pattern_scores, t)
        /\ global_patterns' = update_global_patterns(global_patterns, a.detected_patterns, t)
        /\ pattern_out' =
              [status |-> "returned",
               overall_risk_score |-> calculate_overall_risk(a.pattern_scores),
               detected_patterns |-> a.detected_patterns,
               pattern_scores |-> a.pattern_scores,
               evidence |-> a.evidence,
               confidence |-> calculate_analysis_confidence(pd),
               player_data |-> [success_rate |-> pd.success_rate,
                                solving_times |-> pd.solving_times,
                                movement_efficiency |-> pd.movement_efficiency,
                                interaction_patterns |-> pd.interaction_patterns]]
        /\ UNCHANGED notPatternVars

PatternCall ==
    /\ nanalyses < MaxAnalyses
    /\ \E c \in PatternCoreInputs, r \in PatternRestInputs :
          analyze_behavior_patterns(PlayerDataOf(c, r), r.game_context)

PatternNext == PatternCall

-----------------------------------------------------------------------------
(* _is_rounded_coordinate of FraudDetector and of AdvancedBehaviorAnalyzer. *)
(* A coordinate is a JSON number: a Python int, or a Python float given by  *)
(* its shortest decimal form  [-]whole.frac  (frac without trailing zeros,  *)
(* empty for an integral float).  str() is modelled character by character. *)

MaxDecimals == 5

CoordWholes == {0, 12}

CoordDigits == {0, 5}

\* the fractional parts: digit sequences that do not end in 0
CoordFracs ==
    {f \in UNION {[1..n -> CoordDigits] : n \in 0..MaxDecimals} :
        Len(f) = 0 \/ f[Len(f)] # 0}

\* every positive float of the grid, the negative ones of at most one decimal,
\* and the ints
Coordinates ==
    {[kind |-> "float", neg |-> FALSE, whole |-> w, frac |-> f] :
        w \in CoordWholes, f \in CoordFracs}
    \cup {[kind |-> "float", neg |-> TRUE, whole |-> w, frac |-> f] :
        w \in CoordWholes, f \in {g \in CoordFracs : Len(g) <= 1}}
    \cup {[kind |-> "int", neg |-> s, whole |-> w, frac |-> <<>>] :
        s \in BOOLEAN, w \in CoordWholes \ {0}}
    \cup {[kind |-> "int", neg |-> FALSE, whole |-> 0, frac |-> <<>>]}

DigitChar(d) == <<"0", "1", "2", "3", "4", "5", "6", "7", "8", "9">>[d + 1]

RECURSIVE NatStr(_)
NatStr(n) == IF n < 10 THEN <<DigitChar(n)>>
             ELSE NatStr(n \div 10) \o <<DigitChar(n % 10)>>

DigitsStr(ds) == [i \in 1..Len(ds) |-> DigitChar(ds[i])]

RECURSIVE LeadingZeros(_)
LeadingZeros(ds) == IF Len(ds) = 0 \/ ds[1] # 0 THEN 0
                    ELSE 1 + LeadingZeros(Tail(ds))

\* float.__repr__ switches to the exponent form below 1e-4
UsesExponent(c) == c.whole = 0 /\ LeadingZeros(c.frac) >= 4

ExponentStr(c) ==
    LET z == LeadingZeros(c.frac)
        m == SubSeq(c.frac, z + 1, Len(c.frac))
        e == z + 1
    IN  <<DigitChar(m[1])>>
        \o (IF Len(m) > 1 THEN <<".">> \o DigitsStr(Tail(m)) ELSE <<>>)
        \o <<"e", "-">>
        \o (IF e < 10 THEN <<"0">> ELSE <<>>) \o NatStr(e)

\* str(x) of a Python int or float
Str(c) ==
    (IF c.neg THEN <<"-">> ELSE <<>>)
    \o (IF c.kind = "int" THEN NatStr(c.whole)
        ELSE IF UsesExponent(c) THEN ExponentStr(c)
        ELSE NatStr(c.whole) \o <<".">>
             \o (IF Len(c.frac) = 0 THEN <<"0">> ELSE DigitsStr(c.frac)))

\* '.' in s
HasDot(s) == \E i \in 1..Len(s) : s[i] = "."

\* s.split('.')[1], for a string holding one '.'
AfterDot(s) ==
    LET i == CHOOSE k \in 1..Len(s) : s[k] = "."
    IN  SubSeq(s, i + 1, Len(s))

\* if '.' in s: decimals = len(s.split('.')[1]); if decimals < 4: return True
FewDecimalsInStr(s) == HasDot(s) /\ Len(AfterDot(s)) < 4

fd_is_rounded_coordinate(lat, lon) ==
    LET lat_str == Str(lat)
        lon_str == Str(lon)
    IN  IF FewDecimalsInStr(lat_str) THEN TRUE
        ELSE IF FewDecimalsInStr(lon_str) THEN TRUE
        ELSE FALSE

\* the same body inside try/except; str, split and len raise on no number
ba_is_rounded_coordinate(lat, lon) ==
    LET lat_str == Str(lat)
        lon_str == Str(lon)
    IN  IF FewDecimalsInStr(lat_str) THEN TRUE
        ELSE IF FewDecimalsInStr(lon_str) THEN TRUE
        ELSE FALSE

\* the function keeps no state: one call per behaviour covers it
NoCoordOut == [status |-> "none"]

CoordInit == coord_out = NoCoordOut

FraudDetectorIsRounded ==
    \E lat \in Coordinates, lon \in Coordinates :
        /\ coord_out.status = "none"
        /\ coord_out' = [status |-> "returned", by |-> "FraudDetector",
                         lat |-> lat, lon |-> lon,
                         result |-> fd_is_rounded_coordinate(lat, lon)]
        /\ UNCHANGED notCoordVars

BehaviorAnalyzerIsRounded ==
    \E lat \in Coordinates, lon \in Coordinates :
        /\ coord_out.status = "none"
        /\ coord_out' = [status |-> "returned", by |-> "AdvancedBehaviorAnalyzer",
                         lat |-> lat, lon |-> lon,
                         result |-> ba_is_rounded_coordinate(lat, lon)]
        /\ UNCHANGED notCoordVars

CoordNext == FraudDetectorIsRounded \/ BehaviorAnalyzerIsRounded

-----------------------------------------------------------------------------
(* LocationVerificationService.comprehensive_location_verification.         *)
(* Confidences are in thousandths, the method weights in hundredths, so the *)
(* overall confidence is in units of 1e-5.  A section of location_data is a *)
(* record in which an absent key holds the default its .get supplies; the   *)
(* field is_dict tells whether the section is a dict at all.  A latitude,   *)
(* longitude or altitude of 0 also stands for None: the code only tests     *)
(* their truth value.                                                       *)

VerificationMethods == <<"gps", "wifi", "cell", "bluetooth", "ip">>

\* every method counted alike
EqualMethodWeights == [gps |-> 20, wifi |-> 20, cell |-> 20, bluetooth |-> 20, ip |-> 20]

method_weights == [gps |-> 40, wifi |-> 25, cell |-> 20, bluetooth |-> 10, ip |-> 5]

\* -100 <= altitude <= 9000, False for None and for 0
check_altitude_consistency(gps_data) ==
    IF gps_data.altitude = 0 THEN FALSE
    ELSE -100 <= gps_data.altitude /\ gps_data.altitude <= 9000

\* 'gps' is not a dict, or accuracy is not a number: .get or '<' raises
GpsRaises(ld) == ~ld.gps.is_dict \/ ~ld.gps.accuracy_is_number

verify_gps_location(ld) ==
    LET g == ld.gps
        c1 == IF g.accuracy < 10 THEN 400
              ELSE IF g.accuracy < 50 THEN 300
              ELSE IF g.accuracy < 100 THEN 200
              ELSE 100
        c2 == c1 + (IF g.satellite_count >= 10 THEN 300
                    ELSE IF g.satellite_count >= 5 THEN 200
                    ELSE 100)
        c3 == c2 + (IF g.signal_strength > -80 THEN 200
                    ELSE IF g.signal_strength > -100 THEN 100
                    ELSE 0)
        c4 == IF g.is_mock_provider THEN c3 \div 10 ELSE c3
        c5 == IF check_altitude_consistency(g) THEN c4 + 100 ELSE c4
    IN  [verified |-> c5 >= 600, confidence |-> Min(1000, c5), failed |-> FALSE,
         mock_issue |-> g.is_mock_provider, network_count |-> 0,
         is_vpn |-> FALSE, is_proxy |-> FALSE]

known_ssids == {"HomeNetwork", "OfficeWiFi", "PublicWiFi"}

identify_known_networks(networks) ==
    SelectSeq(networks, LAMBDA net : net.ssid \in known_ssids)

check_network_stability(wifi_data) == TRUE

WifiRaises(ld) == ~ld.wifi.is_dict

verify_wifi_fingerprint(ld) ==
    LET networks == ld.wifi.networks
        n == Len(networks)
        total == SumSeq([i \in 1..n |-> networks[i].signal_strength])
        c1 == IF n >= 5 THEN 400 ELSE IF n >= 3 THEN 300
              ELSE IF n >= 1 THEN 200 ELSE 100
        \* avg_signal > -60, with avg_signal = total / n
        c2 == c1 + (IF total > -60 * n THEN 300
                    ELSE IF total > -70 * n THEN 200
                    ELSE IF total > -80 * n THEN 100
                    ELSE 0)
        c3 == IF Len(identify_known_networks(networks)) > 0 THEN c2 + 200 ELSE c2
        c4 == IF check_network_stability(ld.wifi) THEN c3 + 100 ELSE c3
    IN  IF n = 0
        THEN [verified |-> FALSE, confidence |-> 0, failed |-> FALSE,
              mock_issue |-> FALSE, network_count |-> 0,
              is_vpn |-> FALSE, is_proxy |-> FALSE]
        ELSE [verified |-> c4 >= 500, confidence |-> Min(1000, c4), failed |-> FALSE,
              mock_issue |-> FALSE, network_count |-> n,
              is_vpn |-> FALSE, is_proxy |-> FALSE]

check_tower_consistency(towers) ==
    IF Len(towers) < 2 THEN FALSE
    ELSE Cardinality({towers[i].provider : i \in 1..Len(towers)}) <= 2

RECURSIVE TowerSignalPoints(_)
TowerSignalPoints(towers) ==
    IF Len(towers) = 0 THEN 0
    ELSE (IF Head(towers).signal_strength > -80 THEN 100
          ELSE IF Head(towers).signal_strength > -90 THEN 50
          ELSE 0) + TowerSignalPoints(Tail(towers))

CellRaises(ld) == ~ld.cell.is_dict

\* the tower points are added up without the cap
VerifyCellTowersUncapped(ld) ==
    LET towers == ld.cell.towers
        n == Len(towers)
        c1 == IF n >= 3 THEN 500 ELSE IF n >= 2 THEN 300 ELSE 100
        c2 == c1 + TowerSignalPoints(towers)
        c3 == IF check_tower_consistency(towers) THEN c2 + 200 ELSE c2
    IN  [verified |-> n > 0 /\ c3 >= 400, confidence |-> IF n = 0 THEN 0 ELSE c3,
         failed |-> FALSE, mock_issue |-> FALSE, network_count |-> 0,
         is_vpn |-> FALSE, is_proxy |-> FALSE]

verify_cell_towers(ld) ==
    LET towers == ld.cell.towers
        n == Len(towers)
        c1 == IF n >= 3 THEN 500 ELSE IF n >= 2 THEN 300 ELSE 100
        c2 == c1 + TowerSignalPoints(towers)
        c3 == IF check_tower_consistency(towers) THEN c2 + 200 ELSE c2
        c4 == Min(800, c3)
    IN  IF n = 0
        THEN [verified |-> FALSE, confidence |-> 0, failed |-> FALSE,
              mock_issue |-> FALSE, network_count |-> 0,
              is_vpn |-> FALSE, is_proxy |-> FALSE]
        ELSE [verified |-> c4 >= 400, confidence |-> c4, failed |-> FALSE,
              mock_issue |-> FALSE, network_count |-> 0,
              is_vpn |-> FALSE, is_proxy |-> FALSE]

BluetoothRaises(ld) == ~ld.bluetooth.is_dict

verify_bluetooth_beacons(ld) ==
    LET n == ld.bluetooth.device_count
        c == IF n >= 3 THEN 600 ELSE IF n >= 2 THEN 400 ELSE 200
    IN  IF n = 0
        THEN [verified |-> FALSE, confidence |-> 0, failed |-> FALSE,
              mock_issue |-> FALSE, network_count |-> 0,
              is_vpn |-> FALSE, is_proxy |-> FALSE]
        ELSE [verified |-> c >= 400, confidence |-> c, failed |-> FALSE,
              mock_issue |-> FALSE, network_count |-> 0,
              is_vpn |-> FALSE, is_proxy |-> FALSE]

\* the arc between two points of the equator dlon whole degrees apart, in
\* metres rounded down: 6371000 * radians(dlon), 111194.9266 m to the degree
EquatorArc(dlon) == dlon * 111194 + (dlon * 9266) \div 10000

\* Haversine distance in metres, on the pairs of points the inputs hold:
\* identical points (0), antipodal points (pi * 6371000, rounded down) and
\* points of the equator
lv_calculate_distance(loc1, loc2) ==
    CASE loc1.lat = loc2.lat /\ loc1.lon = loc2.lon -> 0
      [] loc1.lat = -loc2.lat /\ Abs(loc1.lon - loc2.lon) = 180 -> 20015086
      [] loc1.lat = 0 /\ loc2.lat = 0 -> EquatorArc(Abs(loc1.lon - loc2.lon))

\* 'ip' is not a dict; or, past the address test, 'gps' is a non-empty
\* value that is not a dict and gps_data.get raises
IpRaises(ld) == ~ld.ip.is_dict \/ (ld.ip.address # "" /\ ~ld.gps.is_dict)

verify_ip_geolocation(ld) ==
    LET ip == ld.ip
        gps == ld.gps
        c1 == IF ip.is_vpn \/ ip.is_proxy THEN 100 ELSE 500
        compared == /\ gps.given
                    /\ ip.latitude # 0 /\ ip.longitude # 0
                    /\ gps.latitude # 0 /\ gps.longitude # 0
        distance == lv_calculate_distance([lat |-> ip.latitude, lon |-> ip.longitude],
                                          [lat |-> gps.latitude, lon |-> gps.longitude])
        c2 == IF ~compared THEN c1
              ELSE IF distance < 50000 THEN c1 + 300
              ELSE c1 \div 2
    IN  IF ip.address = ""
        THEN [verified |-> FALSE, confidence |-> 0, failed |-> FALSE,
              mock_issue |-> FALSE, network_count |-> 0,
              is_vpn |-> FALSE, is_proxy |-> FALSE]
        ELSE [verified |-> c2 >= 400, confidence |-> Min(1000, c2), failed |-> FALSE,
              mock_issue |-> FALSE, network_count |-> 0,
              is_vpn |-> ip.is_vpn, is_proxy |-> ip.is_proxy]

\* the entry the except branch records: {verified: False, confidence: 0.0, error}
FailedMethodResult ==
    [verified |-> FALSE, confidence |-> 0, failed |-> TRUE,
     mock_issue |-> FALSE, network_count |-> 0,
     is_vpn |-> FALSE, is_proxy |-> FALSE]

MethodRaises(name, ld) ==
    CASE name = "gps" -> GpsRaises(ld)
      [] name = "wifi" -> WifiRaises(ld)
      [] name = "cell" -> CellRaises(ld)
      [] name = "bluetooth" -> BluetoothRaises(ld)
      [] name = "ip" -> IpRaises(ld)

MethodResult(name, ld) ==
    CASE name = "gps" -> verify_gps_location(ld)
      [] name = "wifi" -> verify_wifi_fingerprint(ld)
      [] name = "cell" -> verify_cell_towers(ld)
      [] name = "bluetooth" -> verify_bluetooth_beacons(ld)
      [] name = "ip" -> verify_ip_geolocation(ld)

\* the first failure ends the weighting: later methods are recorded as failed
VerificationStepAborting(acc, name, ld) ==
    LET put(r) == [m \in DOMAIN acc.results \cup {name} |->
                      IF m = name THEN r ELSE acc.results[m]]
        aborted == \E m \in DOMAIN acc.results : acc.results[m].failed
    IN  IF MethodRaises(name, ld) \/ aborted
        THEN [results |-> put(FailedMethodResult), overall |-> acc.overall]
        ELSE LET result == MethodResult(name, ld)
             IN  [results |-> put(result),
                  overall |-> acc.overall + result.confidence * method_weights[name]]

\* one turn of the loop: try: record the result, add confidence * weight;
\* except: record the failed entry, leave overall_confidence alone
VerificationStep(acc, name, ld) ==
    LET put(r) == [m \in DOMAIN acc.results \cup {name} |->
                      IF m = name THEN r ELSE acc.results[m]]
    IN  IF MethodRaises(name, ld)
        THEN [results |-> put(FailedMethodResult), overall |-> acc.overall]
        ELSE LET result == MethodResult(name, ld)
             IN  [results |-> put(result),
                  overall |-> acc.overall + result.confidence * method_weights[name]]

RECURSIVE VerificationLoop(_, _, _)
VerificationLoop(names, ld, acc) ==
    IF Len(names) = 0 THEN acc
    ELSE VerificationLoop(Tail(names), ld, VerificationStep(acc, Head(names), ld))

\* is_verified = overall_confidence >= 0.7
IsVerified(overall_confidence) == overall_confidence >= 70000

identify_location_risk_factors(results) ==
    (IF results["gps"].confidence < 300 THEN <<"low_gps_confidence">> ELSE <<>>)
    \o (IF results["gps"].mock_issue THEN <<"mock_location_detected">> ELSE <<>>)
    \o (IF results["wifi"].network_count = 0 THEN <<"no_wifi_networks">> ELSE <<>>)
    \o (IF results["ip"].is_vpn THEN <<"vpn_usage">> ELSE <<>>)
    \o (IF results["ip"].is_proxy THEN <<"proxy_usage">> ELSE <<>>)

generate_verification_recommendations(results) ==
    LET recs ==
          (IF results["gps"].confidence < 600 THEN <<"improve_gps_signal">> ELSE <<>>)
          \o (IF results["wifi"].network_count < 3 THEN <<"more_wifi_networks">> ELSE <<>>)
          \o (IF results["ip"].is_vpn THEN <<"disable_vpn">> ELSE <<>>)
    IN  IF Len(recs) = 0 THEN <<"verification_is_strong">> ELSE recs

GpsAbsent ==
    [is_dict |-> TRUE, given |-> FALSE, accuracy_is_number |-> TRUE,
     accuracy |-> 0, satellite_count |-> 0, signal_strength |-> -1,
     is_mock_provider |-> FALSE, altitude |-> 0, latitude |-> 0, longitude |-> 0]

GpsGood ==
    [GpsAbsent EXCEPT !.given = TRUE, !.accuracy = 5, !.satellite_count = 12,
                      !.signal_strength = -70, !.altitude = 100,
                      !.latitude = 12, !.longitude = 77]

GpsSections ==
    { GpsAbsent, GpsGood,
      [GpsGood EXCEPT !.accuracy = 30, !.satellite_count = 6,
                      !.signal_strength = -90, !.altitude = 0],
      [GpsGood EXCEPT !.accuracy = 200, !.satellite_count = 2,
                      !.signal_strength = -110, !.altitude = 10000],
      [GpsGood EXCEPT !.is_mock_provider = TRUE],
      [GpsAbsent EXCEPT !.given = TRUE, !.accuracy_is_number = FALSE],
      [GpsAbsent EXCEPT !.given = TRUE, !.accuracy_is_number = FALSE,
                        !.is_mock_provider = TRUE],
      [GpsAbsent EXCEPT !.given = TRUE, !.is_dict = FALSE] }

Networks(n, ssid, signal_strength) ==
    [i \in 1..n |-> [ssid |-> ssid, signal_strength |-> signal_strength]]

WifiSections ==
    { [is_dict |-> TRUE, networks |-> <<>>],
      [is_dict |-> TRUE, networks |-> Networks(1, "cafe", -85)],
      [is_dict |-> TRUE, networks |-> Networks(3, "cafe", -65)],
      [is_dict |-> TRUE, networks |-> Networks(5, "HomeNetwork", -50)],
      [is_dict |-> FALSE, networks |-> <<>>] }

ManyTowers == 9

CellSections ==
    { [is_dict |-> TRUE, towers |-> <<>>],
      [is_dict |-> TRUE, towers |-> <<[signal_strength |-> -85, provider |-> "A"]>>],
      [is_dict |-> TRUE, towers |-> <<[signal_strength |-> -75, provider |-> "A"],
                                      [signal_strength |-> -75, provider |-> "B"]>>],
      [is_dict |-> TRUE,
       towers |-> [i \in 1..ManyTowers |-> [signal_strength |-> -75, provider |-> "A"]]],
      [is_dict |-> FALSE, towers |-> <<>>] }

BluetoothSections ==
    {[is_dict |-> TRUE, device_count |-> n] : n \in 0..3}
    \cup {[is_dict |-> FALSE, device_count |-> 0]}

IpAbsent ==
    [is_dict |-> TRUE, address |-> "", is_vpn |-> FALSE, is_proxy |-> FALSE,
     latitude |-> 0, longitude |-> 0]

IpSections ==
    { IpAbsent,
      [IpAbsent EXCEPT !.address = "1.2.3.4"],
      [IpAbsent EXCEPT !.address = "1.2.3.4", !.latitude = 12, !.longitude = 77],
      [IpAbsent EXCEPT !.address = "1.2.3.4", !.latitude = -12, !.longitude = -103],
      [IpAbsent EXCEPT !.address = "1.2.3.4", !.is_vpn = TRUE,
                       !.latitude = 12, !.longitude = 77],
      [IpAbsent EXCEPT !.is_dict = FALSE] }

LocationInputs ==
    [gps : GpsSections, wifi : WifiSections, cell : CellSections,
     bluetooth : BluetoothSections, ip : IpSections]

\* the service keeps no state: one call per behaviour covers it
NoLocationOut == [status |-> "none"]

LocationInit == loc_out = NoLocationOut

comprehensive_location_verification(location_data) ==
    LET done == VerificationLoop(VerificationMethods, location_data,
                                 [results |-> <<>>, overall |-> 0])
    IN  /\ loc_out' = [status |-> "returned",
                       location_data |-> location_data,
                       verified |-> IsVerified(done.overall),
                       overall_confidence |-> done.overall,
                       verification_methods |-> done.results,
                       risk_factors |-> identify_location_risk_factors(done.results),
                       recommendations |->
                           generate_verification_recommendations(done.results)]
        /\ UNCHANGED notLocationVars

VerifyLocation ==
    /\ loc_out.status = "none"
    /\ \E location_data \in LocationInputs :
          comprehensive_location_verification(location_data)

LocationNext == VerifyLocation

-----------------------------------------------------------------------------
(* AdvancedClueGenerator.generate_contextual_clue with its Redis cache.     *)
(* Float scores of the clue generator are integers in units of 1e-5         *)
(* (100000 stands for 1.0).  A text is a record of the properties the code  *)
(* reads from the string: its length, its split() words, the marks and the  *)
(* keywords it holds.  A digest (md5, sha256, hmac) stands for the data it  *)
(* was computed from.                                                       *)

Clamp(lo, hi, x) == Max(lo, Min(hi, x))

GptText ==
    [id |-> "Where do secrets sleep? Find the hidden gate!",
     length |-> 45, word_count |-> 8, letters |-> 38,
     question_marks |-> 1, exclamation_marks |-> 1, mystery_words |-> TRUE,
     sensitive_terms |-> FALSE, exploration_keywords |-> 1,
     words |-> {"where", "do", "secrets", "sleep?", "find", "the", "hidden", "gate!"}]

GptSacredText ==
    [id |-> "Count the sacred steps",
     length |-> 22, word_count |-> 4, letters |-> 19,
     question_marks |-> 0, exclamation_marks |-> 0, mystery_words |-> FALSE,
     sensitive_terms |-> TRUE, exploration_keywords |-> 0,
     words |-> {"count", "the", "sacred", "steps"}]

GeminiText ==
    [id |-> "Seek the oldest tree and look beneath",
     length |-> 37, word_count |-> 7, letters |-> 31,
     question_marks |-> 0, exclamation_marks |-> 0, mystery_words |-> FALSE,
     sensitive_terms |-> FALSE, exploration_keywords |-> 2,
     words |-> {"seek", "the", "oldest", "tree", "and", "look", "beneath"}]

\* base_clues of _generate_simple_clue
base_clues(clue_type) ==
    CASE clue_type = "riddle" ->
            [id |-> "Look for the ancient marker where shadows meet light.",
             length |-> 53, word_count |-> 9, letters |-> 45,
             question_marks |-> 0, exclamation_marks |-> 0, mystery_words |-> FALSE,
             sensitive_terms |-> FALSE, exploration_keywords |-> 1,
             words |-> {"look", "for", "the", "ancient", "marker", "where",
                        "shadows", "meet", "light."}]
      [] clue_type = "puzzle" ->
            [id |-> "Solve the pattern: follow the path less traveled.",
             length |-> 49, word_count |-> 8, letters |-> 42,
             question_marks |-> 0, exclamation_marks |-> 0, mystery_words |-> FALSE,
             sensitive_terms |-> FALSE, exploration_keywords |-> 0,
             words |-> {"solve", "the", "pattern:", "follow", "path", "less",
                        "traveled."}]
      [] clue_type = "visual" ->
            [id |-> "Find the symbol that points to hidden treasures.",
             length |-> 48, word_count |-> 8, letters |-> 41,
             question_marks |-> 0, exclamation_marks |-> 0, mystery_words |-> TRUE,
             sensitive_terms |-> FALSE, exploration_keywords |-> 1,
             words |-> {"find", "the", "symbol", "that", "points", "to", "hidden",
                        "treasures."}]
      [] clue_type = "audio" ->
            [id |-> "Listen for the echoes of forgotten stories.",
             length |-> 43, word_count |-> 7, letters |-> 37,
             question_marks |-> 0, exclamation_marks |-> 0, mystery_words |-> FALSE,
             sensitive_terms |-> FALSE, exploration_keywords |-> 0,
             words |-> {"listen", "for", "the", "echoes", "of", "forgotten",
                        "stories."}]
      [] clue_type = "augmented_reality" ->
            [id |-> "Reveal what's hidden in plain sight.",
             length |-> 36, word_count |-> 6, letters |-> 31,
             question_marks |-> 0, exclamation_marks |-> 0, mystery_words |-> TRUE,
             sensitive_terms |-> FALSE, exploration_keywords |-> 0,
             words |-> {"reveal", "what's", "hidden", "in", "plain", "sight."}]
      [] clue_type = "cryptographic" ->
            [id |-> "Decode the message in the stones.",
             length |-> 33, word_count |-> 6, letters |-> 28,
             question_marks |-> 0, exclamation_marks |-> 0, mystery_words |-> FALSE,
             sensitive_terms |-> FALSE, exploration_keywords |-> 0,
             words |-> {"decode", "the", "message", "in", "stones."}]

select_optimal_clue_type(player) ==
    IF player.level < 3 THEN "riddle"
    ELSE IF player.level < 6 THEN "puzzle"
    ELSE IF player.learning_style = "visual" THEN "visual"
    ELSE IF player.learning_style = "auditory" THEN "audio"
    ELSE "puzzle"

calculate_ideal_difficulty(player) ==
    Clamp(10000, 90000,
          player.level * 10000 + ((player.success_rate - 50000) * 2) \div 10)

estimate_difficulty(text, player_level) ==
    LET complexity == (text.word_count * 30000
                       + (text.letters * 70000) \div Max(1, text.word_count)) \div 20
    IN  Clamp(10000, 90000, (complexity * player_level) \div 5)

assess_engagement_potential(clue) ==
    Min(100000, 50000
                + (IF clue.text.question_marks > 0 THEN 20000 ELSE 0)
                + (IF clue.text.exclamation_marks > 0 THEN 10000 ELSE 0)
                + (IF clue.text.mystery_words THEN 20000 ELSE 0))

\* common words / all words of the two texts
WordSimilarity(a, b) ==
    (Cardinality(a.words \cap b.words) * 100000)
        \div Max(1, Cardinality(a.words \cup b.words))

calculate_uniqueness(clue, previous_clues) ==
    LET recent == LastN(previous_clues, 5)
        sims == [i \in 1..Len(recent) |-> WordSimilarity(clue.text, recent[i].text)]
    IN  IF Len(previous_clues) = 0 THEN 100000
        ELSE 100000 - SumSeq(sims) \div Len(sims)

assess_cultural_fit(clue) == IF clue.text.sensitive_terms THEN 30000 ELSE 90000

assess_exploration_potential(clue) ==
    Min(100000, clue.text.exploration_keywords * 30000)

calculate_clue_quality_score(clue, player, previous_clues) ==
    LET difficulty_match ==
            100000 - Abs(clue.difficulty - calculate_ideal_difficulty(player))
        score == (difficulty_match * 30
                  + assess_engagement_potential(clue) * 20
                  + calculate_uniqueness(clue, previous_clues) * 20
                  + assess_cultural_fit(clue) * 15
                  + assess_exploration_potential(clue) * 15) \div 100
    IN  Clamp(10000, 100000, score)

\* an LLM call either raises or answers with a text
LlmFailed == [ok |-> FALSE]

generate_with_gpt4(answer, player) ==
    [text |-> answer.text, type |-> "gpt4",
     difficulty |-> estimate_difficulty(answer.text, player.level),
     length |-> answer.text.length]

generate_with_gemini(answer) ==
    [text |-> answer.text, type |-> "gemini", difficulty |-> 50000,
     length |-> answer.text.length]

generate_simple_clue(clue_type) ==
    [text |-> base_clues(clue_type), type |-> "simple", difficulty |-> 30000,
     length |-> base_clues(clue_type).length]

UsesGpt4(clue_type) == clue_type \in {"riddle", "puzzle", "cryptographic"}

UsesGemini(clue_type) == clue_type = "puzzle"

\* the number of LLM calls one generation attempts
LlmCalls(clue_type) ==
    (IF UsesGpt4(clue_type) THEN 1 ELSE 0) + (IF UsesGemini(clue_type) THEN 1 ELSE 0)

\* a variant list without the fallback
VariantsWithoutFallback(clue_type, player, gpt, gemini) ==
    (IF UsesGpt4(clue_type) /\ gpt.ok
     THEN <<generate_with_gpt4(gpt, player)>> ELSE <<>>)
    \o (IF UsesGemini(clue_type) /\ gemini.ok
        THEN <<generate_with_gemini(gemini)>> ELSE <<>>)

generate_clue_variants(clue_type, player, gpt, gemini) ==
    LET variants ==
            (IF UsesGpt4(clue_type) /\ gpt.ok
             THEN <<generate_with_gpt4(gpt, player)>> ELSE <<>>)
            \o (IF UsesGemini(clue_type) /\ gemini.ok
                THEN <<generate_with_gemini(gemini)>> ELSE <<>>)
    IN  IF Len(variants) = 0 THEN <<generate_simple_clue(clue_type)>> ELSE variants

\* np.argmax: the first index of the largest score
ArgMax(scores) ==
    CHOOSE i \in 1..Len(scores) :
        /\ \A j \in 1..Len(scores) : scores[j] <= scores[i]
        /\ \A j \in 1..(i - 1) : scores[j] < scores[i]

select_best_variant(variants, player, previous_clues, t) ==
    LET scores == [i \in 1..Len(variants) |->
                      calculate_clue_quality_score(variants[i], player, previous_clues)]
        best_index == ArgMax(scores)
        best_clue == variants[best_index]
    IN  [text |-> best_clue.text, type |-> best_clue.type,
         difficulty |-> best_clue.difficulty, length |-> best_clue.length,
         quality_score |-> scores[best_index],
         generation_timestamp |-> [iso |-> t],
         model_used |-> "multi_modal_ensemble"]

create_location_commitment(location) ==
    [sha256 |-> Str(location.lat) \o <<"_">> \o Str(location.lon)
                \o <<"_", location.name>>]

clue_secret_key == "default-secret-key"

\* the stamp is left out
EncryptWithoutProof(clue, location) == clue

\* sha256 of "{text}{lat}{lon}{generation_timestamp}", hmac of the digest,
\* and the clue with its crypto_proof attached
encrypt_and_prove_clue(clue, location) ==
    LET clue_hash == [sha256 |-> [text |-> clue.text.id, lat |-> Str(location.lat),
                                  lon |-> Str(location.lon),
                                  timestamp |-> clue.generation_timestamp]]
    IN  [text |-> clue.text, type |-> clue.type,
         difficulty |-> clue.difficulty, length |-> clue.length,
         quality_score |-> clue.quality_score,
         generation_timestamp |-> clue.generation_timestamp,
         model_used |-> clue.model_used,
         crypto_proof |->
             [hash |-> clue_hash,
              hmac |-> [key |-> clue_secret_key, message |-> clue_hash],
              timestamp |-> clue.generation_timestamp,
              location_commitment |-> create_location_commitment(location)]]

\* md5 of "{lat}_{lon}_{level}_{theme}"
generate_cache_key(location, player, context) ==
    [md5 |-> Str(location.lat) \o <<"_">> \o Str(location.lon) \o <<"_">>
             \o NatStr(player.level) \o <<"_", context.theme>>]

\* the five decimal digits of a fraction given in units of 1e-5
FractionDigits(f) ==
    <<(f \div 10000) % 10, (f \div 1000) % 10, (f \div 100) % 10, (f \div 10) % 10, f % 10>>

RECURSIVE StripTrailingZeros(_)
StripTrailingZeros(ds) ==
    IF Len(ds) > 0 /\ ds[Len(ds)] = 0
    THEN StripTrailingZeros(SubSeq(ds, 1, Len(ds) - 1))
    ELSE ds

\* float.__repr__ of a non-negative score
FloatRepr(v) ==
    Str([kind |-> "float", neg |-> FALSE, whole |-> v \div 100000,
         frac |-> StripTrailingZeros(FractionDigits(v % 100000))])

DigitValue(ch) == CHOOSE d \in 0..9 : DigitChar(d) = ch

RECURSIVE ParseNat(_)
ParseNat(chars) ==
    IF Len(chars) = 0 THEN 0
    ELSE ParseNat(SubSeq(chars, 1, Len(chars) - 1)) * 10 + DigitValue(chars[Len(chars)])

BeforeDot(s) ==
    LET i == CHOOSE k \in 1..Len(s) : s[k] = "."
    IN  SubSeq(s, 1, i - 1)

RECURSIVE PadRight(_, _)
PadRight(chars, n) == IF Len(chars) >= n THEN chars ELSE PadRight(chars \o <<"0">>, n)

\* a JSON number without exponent: an int, or a float back in units of 1e-5
ParseNumber(chars) ==
    IF HasDot(chars)
    THEN ParseNat(BeforeDot(chars)) * 100000 + ParseNat(PadRight(AfterDot(chars), 5))
    ELSE ParseNat(chars)

ClueKeys ==
    <<"text", "type", "difficulty", "length", "quality_score",
      "generation_timestamp", "model_used", "crypto_proof">>

ProofKeys == <<"hash", "hmac", "timestamp", "location_commitment">>

JsonString(v) == [json |-> "string", body |-> [quoted |-> v]]

\* the members of crypto_proof, every value a string
JsonProof(proof) ==
    LET present == SelectSeq(ProofKeys, LAMBDA k : k \in DOMAIN proof)
    IN  [i \in 1..Len(present) |->
            [key |-> present[i], value |-> JsonString(proof[present[i]])]]

JsonClueValue(k, v) ==
    CASE k \in {"difficulty", "quality_score"} ->
            [json |-> "number", body |-> FloatRepr(v)]
      [] k = "length" -> [json |-> "number", body |-> NatStr(v)]
      [] k = "crypto_proof" -> [json |-> "object", body |-> JsonProof(v)]
      [] OTHER -> JsonString(v)

\* json.dumps(clue): the members in the insertion order of the keys
json_dumps(clue) ==
    LET present == SelectSeq(ClueKeys, LAMBDA k : k \in DOMAIN clue)
    IN  [i \in 1..Len(present) |->
            [key |-> present[i], value |-> JsonClueValue(present[i], clue[present[i]])]]

\* json.loads(text)
RECURSIVE json_loads(_)
json_loads(members) ==
    [k \in {members[i].key : i \in 1..Len(members)} |->
        LET value == members[CHOOSE i \in 1..Len(members) : members[i].key = k].value
        IN  CASE value.json = "string" -> value.body.quoted
              [] value.json = "number" -> ParseNumber(value.body)
              [] value.json = "object" -> json_loads(value.body)]

\* Redis: key -> value with the time at which the key expires
RedisNil == <<>>

redis_get(cache, key, t) ==
    IF key \in DOMAIN cache /\ t < cache[key].expires_at
    THEN cache[key].value
    ELSE RedisNil

redis_setex(cache, key, ttl, value, t) ==
    [k \in DOMAIN cache \cup {key} |->
        IF k = key THEN [value |-> value, expires_at |-> t + ttl] ELSE cache[k]]

ClueCacheTtl == 3600

MaxClueCalls == 2

MaxClueTicks == 3

\* seconds that one step of the clock takes
ClueTickSeconds == 1800

Temple ==
    [lat |-> [kind |-> "float", neg |-> FALSE, whole |-> 12, frac |-> <<5>>],
     lon |-> [kind |-> "float", neg |-> FALSE, whole |-> 12, frac |-> <<0, 5>>],
     name |-> "temple"]

\* the same place, its latitude sent as 12.5 and its name differing
TempleGate == [Temple EXCEPT !.name = "temple gate"]

Harbour == [Temple EXCEPT !.lat.kind = "int", !.lat.frac = <<>>, !.name = "harbour"]

Novice ==
    [level |-> 2, success_rate |-> 50000, learning_style |-> "visual",
     cultural_context |-> "neutral"]

ClueRequests ==
    { [location |-> Temple, player |-> Novice,
       hunt_context |-> [theme |-> "pirate"], previous_clues |-> <<>>],
      [location |-> TempleGate,
       player |-> [Novice EXCEPT !.success_rate = 90000, !.learning_style = "kinesthetic"],
       hunt_context |-> [theme |-> "pirate"], previous_clues |-> <<[text |-> GptText]>>],
      [location |-> Temple, player |-> [Novice EXCEPT !.level = 4],
       hunt_context |-> [theme |-> "pirate"], previous_clues |-> <<>>],
      [location |-> Temple, player |-> [Novice EXCEPT !.level = 7],
       hunt_context |-> [theme |-> "pirate"], previous_clues |-> <<>>],
      [location |-> Temple,
       player |-> [Novice EXCEPT !.level = 7, !.learning_style = "auditory"],
       hunt_context |-> [theme |-> "pirate"], previous_clues |-> <<>>],
      [location |-> Harbour, player |-> Novice,
       hunt_context |-> [theme |-> "pirate"], previous_clues |-> <<>>],
      [location |-> Temple, player |-> Novice,
       hunt_context |-> [theme |-> "space"], previous_clues |-> <<>>] }

GptAnswers == {LlmFailed, [ok |-> TRUE, text |-> GptText], [ok |-> TRUE, text |-> GptSacredText]}

GeminiAnswers == {LlmFailed, [ok |-> TRUE, text |-> GeminiText]}

NoClueOut == [status |-> "none"]

ClueInit ==
    /\ clue_now = 0
    /\ clue_cache = <<>>
    /\ generation_count = 0
    /\ cache_hits = 0
    /\ clue_out = NoClueOut
    /\ nclue_calls = 0

\* the clue serialised as it was before the proof was attached
CachedPayloadBeforeProof(encrypted_clue) ==
    json_dumps([k \in DOMAIN encrypted_clue \ {"crypto_proof"} |-> encrypted_clue[k]])

\* what is written to the cache for a freshly generated clue
CachedPayload(encrypted_clue) == json_dumps(encrypted_clue)

generate_contextual_clue(location, player, hunt_context, previous_clues, gpt, gemini) ==
    LET cache_key == generate_cache_key(location, player, hunt_context)
        cached == redis_get(clue_cache, cache_key, clue_now)
        clue_type == select_optimal_clue_type(player)
        variants == generate_clue_variants(clue_type, player, gpt, gemini)
        best_clue == select_best_variant(variants, player, previous_clues, clue_now)
        encrypted_clue == encrypt_and_prove_clue(best_clue, location)
    IN  IF cached # RedisNil
        THEN /\ cache_hits' = cache_hits + 1
             /\ clue_out' = [status |-> "returned", cache_key |-> cache_key,
                             hit |-> TRUE, clue |-> json_loads(cached),
                             llm_calls |-> 0, at |-> clue_now]
             /\ UNCHANGED <<clue_cache, generation_count>>
        ELSE /\ clue_cache' = redis_setex(clue_cache, cache_key, ClueCacheTtl,
                                          CachedPayload(encrypted_clue), clue_now)
             /\ generation_count' = generation_count + 1
             /\ clue_out' = [status |-> "returned", cache_key |-> cache_key,
                             hit |-> FALSE, clue |-> encrypted_clue,
                             llm_calls |-> LlmCalls(clue_type), at |-> clue_now]
             /\ UNCHANGED cache_hits

GenerateClue ==
    /\ nclue_calls < MaxClueCalls
    /\ nclue_calls' = nclue_calls + 1
    /\ \E r \in ClueRequests, gpt \in GptAnswers, gemini \in GeminiAnswers :
          generate_contextual_clue(r.location, r.player, r.hunt_context,
                                   r.previous_clues, gpt, gemini)
    /\ UNCHANGED clue_now
    /\ UNCHANGED notClueVars

ClueTick ==
    /\ clue_now < MaxClueTicks * ClueTickSeconds
    /\ clue_now' = clue_now + ClueTickSeconds
    /\ UNCHANGED <<clue_cache, generation_count, cache_hits, clue_out, nclue_calls>>
    /\ UNCHANGED notClueVars

ClueNext == GenerateClue \/ ClueTick

-----------------------------------------------------------------------------
(* AdvancedBehaviorAnalyzer.comprehensive_verification behind the           *)
(* /comprehensive-verification endpoint.  The five sub-checks are awaited   *)
(* with asyncio.gather(return_exceptions=True): each one ends with a result *)
(* or with the exception it raised, in any order.  Scores in thousandths.   *)

SubChecks == {"behavior", "location", "device", "temporal", "social"}

\* the IsolationForest is never fitted: decision_function raises and the
\* bare except of _analyze_behavior_patterns sets 0.5
ba_anomaly_score == 500

\* np.std / np.mean over solving_times that are not a list of numbers raises
BehaviorRaises(player_data) == ~player_data.solving_times_are_numbers

ba_analyze_pattern_consistency(player_data) ==
    LET solving_times == player_data.solving_times
        cv == IF SumSeq(solving_times) > 0 THEN CoeffOfVariation(solving_times) ELSE 1000
    IN  IF Len(solving_times) > 2
        THEN Max(100, Max(0, 1000 - cv))
        ELSE 1000

\* numerator and denominator of the least-squares slope over x = 0..n-1
SlopeNumerator(ys) ==
    LET n == Len(ys)
    IN  n * SumSeq([i \in 1..n |-> (i - 1) * ys[i]])
        - SumSeq([i \in 1..n |-> i - 1]) * SumSeq(ys)

SlopeDenominator(ys) ==
    LET n == Len(ys)
    IN  n * SumSeq([i \in 1..n |-> (i - 1) * (i - 1)])
        - SumSeq([i \in 1..n |-> i - 1]) * SumSeq([i \in 1..n |-> i - 1])

ba_analyze_learning_trajectory(player_data) ==
    LET solving_times == player_data.solving_times
        num == SlopeNumerator(solving_times)
        den == SlopeDenominator(solving_times)
    IN  IF Len(solving_times) < 3 THEN "insufficient_data"
        ELSE IF num < -10 * den THEN "rapid_learner"
        ELSE IF num < -2 * den THEN "improving"
        ELSE IF Abs(num) <= 2 * den THEN "stable"
        ELSE IF num > 10 * den THEN "concerning"
        ELSE "slight_improvement"

ba_analyze_behavior_patterns(player_data) ==
    [anomaly_score |-> ba_anomaly_score,
     pattern_consistency |-> ba_analyze_pattern_consistency(player_data),
     learning_trajectory |-> ba_analyze_learning_trajectory(player_data),
     engagement_pattern |-> "typical"]

\* a gps_accuracy that is not a number makes 'accuracy < 10' raise
LocationRaises(location_data) == ~location_data.gps_accuracy_is_number

analyze_gps_quality(location_data) ==
    LET accuracy == location_data.gps_accuracy
    IN  IF accuracy = 0 THEN 100
        ELSE IF accuracy < 10 THEN 1000
        ELSE IF accuracy < 50 THEN 800
        ELSE IF accuracy < 100 THEN 500
        ELSE 200

\* Haversine distance in metres, on the pairs of points the inputs hold:
\* the whole-degree latitudes at which, for a point and its antipode, the
\* doubles give a = sin(dlat/2)**2 + cos(lat1)*cos(lat2)*sin(dlon/2)**2 > 1,
\* so that sqrt(1 - a) raises ValueError
SqrtDomainErrorLatitudes == {8, 12, 82}

\* identical points (0), points of the equator (a quarter turn apart:
\* pi / 2 * 6371000, half a turn apart: pi * 6371000, rounded down) and
\* antipodal points; the bare except turns the ValueError into 0.0
ba_calculate_haversine_distance(loc1, loc2) ==
    CASE loc1.lat = loc2.lat /\ loc1.lon = loc2.lon -> 0
      [] loc1.lat = 0 /\ loc2.lat = 0 -> EquatorArc(Abs(loc1.lon - loc2.lon))
      [] loc1.lat = -loc2.lat /\ Abs(loc1.lon - loc2.lon) = 180 ->
            IF Abs(loc1.lat) \in SqrtDomainErrorLatitudes THEN 0 ELSE 20015086

\* speed_kmh = (distance / 1000) / (time_diff / 3600) > 500
BaImpossibleSpeed(prev, curr) ==
    LET distance == ba_calculate_haversine_distance(prev, curr)
        time_diff == curr.timestamp - prev.timestamp
    IN  time_diff > 0 /\ distance * 36 > 5000 * time_diff

RECURSIVE BaImpossibleMovements(_)
BaImpossibleMovements(location_history) ==
    IF Len(location_history) < 2 THEN 0
    ELSE (IF BaImpossibleSpeed(location_history[1], location_history[2]) THEN 1 ELSE 0)
         + BaImpossibleMovements(Tail(location_history))

RECURSIVE Halved(_, _)
Halved(score, times) == IF times = 0 THEN score ELSE Halved(score \div 2, times - 1)

verify_movement_plausibility(location_data) ==
    LET location_history == location_data.location_history
        impossible_movements == BaImpossibleMovements(location_history)
        steps == Max(1, Len(location_history) - 1)
        plausibility_score == Halved(1000, impossible_movements)
    IN  IF Len(location_history) < 2 THEN 1000
        ELSE Max(100, (plausibility_score * (steps - impossible_movements)) \div steps)

detect_spoofing_indicators(location_data) ==
    (IF location_data.is_mock_provider THEN <<"mock_location_provider">> ELSE <<>>)
    \o (IF location_data.gps_accuracy > 1000 THEN <<"poor_gps_accuracy">> ELSE <<>>)
    \o (IF ba_is_rounded_coordinate(location_data.lat, location_data.lon)
        THEN <<"rounded_coordinates">> ELSE <<>>)

verify_location_authenticity(location_data) ==
    [gps_trust |-> analyze_gps_quality(location_data),
     wifi_consistency |-> 1000,
     cell_tower_match |-> 1000,
     movement_plausibility |-> verify_movement_plausibility(location_data),
     spoofing_indicators |-> detect_spoofing_indicators(location_data)]

detect_device_anomalies ==
    [trust_score |-> 900, device_consistency |-> 950, anomalies_detected |-> <<>>]

analyze_temporal_patterns ==
    [pattern_consistency |-> 850, usual_playing_times |-> TRUE,
     session_length_consistency |-> 800]

check_collaboration_network ==
    [collaboration_trust |-> 900, suspicious_collaborations |-> <<>>,
     social_consistency |-> 850]

\* what asyncio.gather(return_exceptions=True) puts in the place of a
\* sub-check: the value it returned, or the exception object it raised
SubCheckOutcome(check, player_data, location_data) ==
    CASE check = "behavior" ->
            IF BehaviorRaises(player_data)
            THEN [status |-> "raised", value |-> <<>>]
            ELSE [status |-> "ok", value |-> ba_analyze_behavior_patterns(player_data)]
      [] check = "location" ->
            IF LocationRaises(location_data)
            THEN [status |-> "raised", value |-> <<>>]
            ELSE [status |-> "ok", value |-> verify_location_authenticity(location_data)]
      [] check = "device" -> [status |-> "ok", value |-> detect_device_anomalies]
      [] check = "temporal" -> [status |-> "ok", value |-> analyze_temporal_patterns]
      [] check = "social" -> [status |-> "ok", value |-> check_collaboration_network]

composite_weights ==
    [behavior |-> 35, location |-> 25, device |-> 15, temporal |-> 15, social |-> 10]

\* behavior.get / location.get ... on an exception object: AttributeError
CompositeTrustRaises(results) == \E c \in SubChecks : results[c].status = "raised"

calculate_composite_trust(behavior, location, device, temporal, social) ==
    LET behavior_base == Max(0, 1000 - behavior.anomaly_score)
        location_base == (location.gps_trust * 4 + location.movement_plausibility * 6) \div 10
        behavior_score == IF behavior.learning_trajectory = "concerning"
                          THEN (behavior_base * 7) \div 10 ELSE behavior_base
        location_score == IF Len(location.spoofing_indicators) > 0
                          THEN (location_base * (10 - 2 * Len(location.spoofing_indicators)))
                               \div 10
                          ELSE location_base
        composite_score == (behavior_score * composite_weights.behavior
                            + location_score * composite_weights.location
                            + device.trust_score * composite_weights.device
                            + temporal.pattern_consistency * composite_weights.temporal
                            + social.collaboration_trust * composite_weights.social) \div 100
    IN  Max(100, Min(1000, composite_score))

identify_risk_factors(detailed_analysis) ==
    (IF detailed_analysis.behavior.anomaly_score > 700
     THEN <<"high_behavior_anomaly">> ELSE <<>>)
    \o (IF Len(detailed_analysis.location.spoofing_indicators) > 0
        THEN <<"location_spoofing_suspected">> ELSE <<>>)
    \o (IF detailed_analysis.behavior.learning_trajectory = "concerning"
        THEN <<"suspicious_learning_pattern">> ELSE <<>>)

determine_verification_level(trust_score) ==
    IF trust_score >= 800 THEN "low"
    ELSE IF trust_score >= 600 THEN "medium"
    ELSE IF trust_score >= 400 THEN "high"
    ELSE "extreme"

generate_recommendations(trust_score, risk_factors) ==
    (IF trust_score < 600 THEN <<"additional_location_verification">> ELSE <<>>)
    \o (IF trust_score < 400 THEN <<"temporary_restriction", "manual_review">> ELSE <<>>)
    \o (IF \E i \in 1..Len(risk_factors) : risk_factors[i] = "high_behavior_anomaly"
        THEN <<"behavior_monitoring">> ELSE <<>>)

\* the part of comprehensive_verification after the gather
CombineResults(results) ==
    LET detailed_analysis == [c \in SubChecks |-> results[c].value]
        trust_score == calculate_composite_trust(
                           results["behavior"].value, results["location"].value,
                           results["device"].value, results["temporal"].value,
                           results["social"].value)
        risk_factors == identify_risk_factors(detailed_analysis)
    IN  [status |-> "success",
         trust_score |-> trust_score,
         detailed_analysis |-> detailed_analysis,
         risk_factors |-> risk_factors,
         verification_level |-> determine_verification_level(trust_score),
         recommendations |-> generate_recommendations(trust_score, risk_factors)]

\* the endpoint's except branch: HTTPException(status_code=500)
Http500 == [status |-> "http_500"]

VerifyPlayerInputs ==
    {[solving_times_are_numbers |-> TRUE, solving_times |-> s] :
        s \in {<<>>, <<60, 60, 60>>, <<100, 60, 20>>, <<20, 60, 100>>}}
    \cup {[solving_times_are_numbers |-> FALSE, solving_times |-> <<>>]}

PreciseFix ==
    [kind |-> "float", neg |-> FALSE, whole |-> 12, frac |-> <<0, 0, 0, 0, 5>>]

RoundedFix == [kind |-> "float", neg |-> FALSE, whole |-> 12, frac |-> <<5>>]

\* a quarter of the equator in one hour
QuarterTurnJump ==
    <<[lat |-> 0, lon |-> 0, timestamp |-> 0],
      [lat |-> 0, lon |-> 90, timestamp |-> 3600]>>

\* the same jump followed by an hour at rest
JumpThenRest == Append(QuarterTurnJump, [lat |-> 0, lon |-> 90, timestamp |-> 7200])

\* the same distance in a hundred hours
SlowQuarterTurn ==
    <<[lat |-> 0, lon |-> 0, timestamp |-> 0],
      [lat |-> 0, lon |-> 90, timestamp |-> 360000]>>

HonestLocation ==
    [gps_accuracy_is_number |-> TRUE, gps_accuracy |-> 5, is_mock_provider |-> FALSE,
     lat |-> PreciseFix, lon |-> PreciseFix, location_history |-> <<>>]

VerifyLocationInputs ==
    { HonestLocation,
      [HonestLocation EXCEPT !.gps_accuracy = 30, !.lat = RoundedFix],
      [HonestLocation EXCEPT !.gps_accuracy = 2000, !.is_mock_provider = TRUE,
                             !.lat = RoundedFix],
      [HonestLocation EXCEPT !.gps_accuracy = 0, !.location_history = QuarterTurnJump],
      [HonestLocation EXCEPT !.location_history = JumpThenRest,
                             !.is_mock_provider = TRUE],
      [HonestLocation EXCEPT !.gps_accuracy = 70, !.location_history = SlowQuarterTurn],
      [HonestLocation EXCEPT !.gps_accuracy_is_number = FALSE, !.gps_accuracy = 0] }

NoVerifyIn == [player_data |-> <<>>, location_data |-> <<>>]

Pending == [status |-> "pending", value |-> <<>>]

NoVerifyOut == [status |-> "none"]

VerifyInit ==
    /\ ver_pc = "idle"
    /\ ver_in = NoVerifyIn
    /\ ver_results = [c \in SubChecks |-> Pending]
    /\ ver_out = NoVerifyOut
    /\ ba_trust_scores = <<>>
    /\ ba_behavior_baselines = <<>>

\* the request arrives and the five sub-checks are handed to gather
StartVerification ==
    /\ ver_pc = "idle"
    /\ \E player_data \in VerifyPlayerInputs, location_data \in VerifyLocationInputs :
          ver_in' = [player_data |-> player_data, location_data |-> location_data]
    /\ ver_pc' = "gathering"
    /\ UNCHANGED <<ver_results, ver_out, ba_trust_scores, ba_behavior_baselines>>
    /\ UNCHANGED notVerifyVars

\* the social check reads what the behavior check has left so far
CompleteSubCheckReadingOthers(check) ==
    /\ ver_pc = "gathering"
    /\ ver_results[check].status = "pending"
    /\ ver_results' = [ver_results EXCEPT
          ![check] = IF check = "social" /\ ver_results["behavior"].status = "ok"
                     THEN [status |-> "ok",
                           value |-> [check_collaboration_network
                                        EXCEPT !.collaboration_trust = 500]]
                     ELSE SubCheckOutcome(check, ver_in.player_data,
                                          ver_in.location_data)]
    /\ UNCHANGED <<ver_pc, ver_in, ver_out, ba_trust_scores, ba_behavior_baselines>>
    /\ UNCHANGED notVerifyVars

\* one sub-check runs to its end
CompleteSubCheck(check) ==
    /\ ver_pc = "gathering"
    /\ ver_results[check].status = "pending"
    /\ ver_results' = [ver_results EXCEPT
                          ![check] = SubCheckOutcome(check, ver_in.player_data,
                                                     ver_in.location_data)]
    /\ UNCHANGED <<ver_pc, ver_in, ver_out, ba_trust_scores, ba_behavior_baselines>>
    /\ UNCHANGED notVerifyVars

\* gather returns; the results are combined, or the AttributeError of
\* _calculate_composite_trust reaches the endpoint's except branch
FinishVerification ==
    /\ ver_pc = "gathering"
    /\ \A c \in SubChecks : ver_results[c].status # "pending"
    /\ ver_out' = IF CompositeTrustRaises(ver_results) THEN Http500
                  ELSE CombineResults(ver_results)
    /\ ver_pc' = "done"
    /\ UNCHANGED <<ver_in, ver_results, ba_trust_scores, ba_behavior_baselines>>
    /\ UNCHANGED notVerifyVars

VerifyNext ==
    \/ StartVerification
    \/ \E check \in SubChecks : CompleteSubCheck(check)
    \/ FinishVerification

-----------------------------------------------------------------------------
(* AnomalyDetector.detect_behavior_anomalies                                *)
(* Rates are in thousandths, times in seconds.                              *)

\* the 14 features; the four that _classify_anomaly_type reads are kept
extract_anomaly_features(player_data) ==
    [length |-> 14,
     solving_time |-> player_data.avg_solving_time,
     success_rate |-> player_data.success_rate,
     movement_efficiency |-> player_data.movement_efficiency,
     hint_usage |-> player_data.hint_usage_rate]

classify_anomaly_type(features) ==
    IF features.solving_time < 30 /\ features.success_rate > 900 THEN "unnatural_speed"
    ELSE IF features.movement_efficiency > 950 /\ features.success_rate > 950
         THEN "perfect_movement"
    ELSE IF features.hint_usage < 100 /\ features.success_rate > 900
         THEN "low_hint_high_success"
    ELSE IF features.solving_time < 20 THEN "extremely_fast_solving"
    ELSE "behavioral_shift"

anomaly_risk_factors ==
    [unnatural_speed |-> 800, perfect_movement |-> 900, low_hint_high_success |-> 700,
     extremely_fast_solving |-> 850, behavioral_shift |-> 500]

\* weighted_risk = anomaly_score * type_multiplier, compared in millionths
assess_risk_level(anomaly_score, anomaly_type) ==
    LET weighted_risk == anomaly_score * anomaly_risk_factors[anomaly_type]
    IN  IF weighted_risk > 800000 THEN "high"
        ELSE IF weighted_risk > 600000 THEN "medium"
        ELSE IF weighted_risk > 400000 THEN "low"
        ELSE "minimal"

\* IsolationForest.decision_function / predict on a forest that was never
\* fitted raise NotFittedError
OutlierModelRaises(model) == ~model.fitted

InsufficientData ==
    [anomaly_score |-> 0, is_anomaly |-> FALSE, confidence |-> 0,
     anomaly_type |-> "insufficient_data", risk_level |-> "absent"]

\* the result of the except branch
DetectionFailed ==
    [anomaly_score |-> 500, is_anomaly |-> FALSE, confidence |-> 0,
     anomaly_type |-> "detection_failed", risk_level |-> "absent"]

\* the handler retries until the model has been asked twice
DetectRetrying(player_data, model) ==
    [result |-> DetectionFailed, model_calls |-> 2]

\* result: the dict returned; model_calls: how often the model was asked
detect_behavior_anomalies(player_data, model) ==
    LET features == extract_anomaly_features(player_data)
        normalized_score == model.decision + 500
        anomaly_type == classify_anomaly_type(features)
    IN  IF features.length = 0 THEN [result |-> InsufficientData, model_calls |-> 0]
        ELSE IF OutlierModelRaises(model)
             THEN [result |-> DetectionFailed, model_calls |-> 1]
             ELSE [result |->
                      [anomaly_score |-> normalized_score,
                       is_anomaly |-> model.decision < 0,
                       confidence |-> Abs(model.decision),
                       anomaly_type |-> anomaly_type,
                       risk_level |-> assess_risk_level(normalized_score, anomaly_type)],
                   model_calls |-> 2]

MaxDetectCalls == 3

AnomalyPlayerInputs ==
    [avg_solving_time : {10, 25, 180}, success_rate : {500, 920, 960, 1000},
     movement_efficiency : {500, 990}, hint_usage_rate : {50, 300}]

NoAnomalyOut == [status |-> "none"]

\* __init__: IsolationForest(contamination=0.1, random_state=42), never fitted
AnomalyInit ==
    /\ anomaly_model = [fitted |-> FALSE, decision |-> 0]
    /\ anomaly_out = NoAnomalyOut
    /\ anomaly_model_calls = 0
    /\ ndetections = 0

DetectBehaviorAnomalies ==
    /\ ndetections < MaxDetectCalls
    /\ \E player_data \in AnomalyPlayerInputs :
          LET done == detect_behavior_anomalies(player_data, anomaly_model)
          IN  /\ anomaly_out' = [status |-> "returned", player_data |-> player_data,
                                 model_raised |-> OutlierModelRaises(anomaly_model),
                                 result |-> done.result]
              /\ anomaly_model_calls' = anomaly_model_calls + done.model_calls
    /\ ndetections' = ndetections + 1
    /\ UNCHANGED anomaly_model
    /\ UNCHANGED notAnomalyVars

AnomalyNext == DetectBehaviorAnomalies

-----------------------------------------------------------------------------
(* GeminiService.generate_content                                           *)
(* Texts are sequences of characters.                                       *)

IsSpace(ch) == ch \in {" ", "\n", "\t"}

RECURSIVE LStrip(_)
LStrip(text) ==
    IF Len(text) > 0 /\ IsSpace(Head(text)) THEN LStrip(Tail(text)) ELSE text

RECURSIVE RStrip(_)
RStrip(text) ==
    IF Len(text) > 0 /\ IsSpace(text[Len(text)])
    THEN RStrip(SubSeq(text, 1, Len(text) - 1)) ELSE text

\* str.strip()
Strip(text) == RStrip(LStrip(text))

\* what the external API does with one request: it answers, or it raises
GeminiApiOutcomes ==
    { [raises |-> TRUE, text |-> <<>>],
      [raises |-> FALSE, text |-> <<" ", "o", "k", "\n">>],
      [raises |-> FALSE, text |-> <<"a", " ", "b">>],
      [raises |-> FALSE, text |-> <<"\t", " ">>] }

GeminiPrompts == {"puzzle", "challenge", "story"}

\* an API error leaves the service switched on
GenerateContentNoLatch(available, prompt, api) ==
    IF available = "unset"
    THEN [status |-> "raised", error |-> "AttributeError", attempted |-> FALSE,
          text |-> <<>>, available |-> available]
    ELSE IF available = "no"
    THEN [status |-> "raised", error |-> "Gemini service not available",
          attempted |-> FALSE, text |-> <<>>, available |-> available]
    ELSE IF api.raises
    THEN [status |-> "raised", error |-> "api error", attempted |-> TRUE,
          text |-> <<>>, available |-> available]
    ELSE [status |-> "returned", error |-> "", attempted |-> TRUE,
          text |-> Strip(api.text), available |-> available]

\* available: "yes"/"no" for True/False, "unset" when __init__ returned
\* before setting the attribute; the result carries the attribute's new value
generate_content(available, prompt, api) ==
    IF available = "unset"
    THEN [status |-> "raised", error |-> "AttributeError", attempted |-> FALSE,
          text |-> <<>>, available |-> available]
    ELSE IF available = "no"
    THEN [status |-> "raised", error |-> "Gemini service not available",
          attempted |-> FALSE, text |-> <<>>, available |-> available]
    ELSE IF api.raises
    THEN [status |-> "raised", error |-> "api error", attempted |-> TRUE,
          text |-> <<>>, available |-> "no"]
    ELSE [status |-> "returned", error |-> "", attempted |-> TRUE,
          text |-> Strip(api.text), available |-> available]

MaxGeminiCalls == 6

NoGeminiOut == [status |-> "none"]

\* the service object is built when the module is first imported
GeminiInit ==
    /\ gemini_available = "unbuilt"
    /\ gemini_out = NoGeminiOut
    /\ gemini_api_calls = 0
    /\ gemini_failures = 0
    /\ ngemini_calls = 0

\* __init__: with GEMINI_API_KEY set, available = True; without it the
\* constructor returns before the attribute exists
NewGeminiService ==
    /\ gemini_available = "unbuilt"
    /\ gemini_available' \in {"yes", "unset"}
    /\ UNCHANGED <<gemini_out, gemini_api_calls, gemini_failures, ngemini_calls>>
    /\ UNCHANGED notGeminiVars

GenerateContent ==
    /\ gemini_available # "unbuilt"
    /\ ngemini_calls < MaxGeminiCalls
    /\ \E prompt \in GeminiPrompts, api \in GeminiApiOutcomes :
          LET done == generate_content(gemini_available, prompt, api)
          IN  /\ gemini_out' = [status |-> done.status, error |-> done.error,
                                attempted |-> done.attempted, text |-> done.text,
                                prompt |-> prompt]
              /\ gemini_available' = done.available
              /\ gemini_api_calls' = gemini_api_calls + (IF done.attempted THEN 1 ELSE 0)
              /\ gemini_failures' =
                    gemini_failures + (IF done.status = "raised" THEN 1 ELSE 0)
    /\ ngemini_calls' = ngemini_calls + 1
    /\ UNCHANGED notGeminiVars

GeminiNext == NewGeminiService \/ GenerateContent

-----------------------------------------------------------------------------
(* The movement checks on one location history:                             *)
(* LocationVerificationService.verify_movement_patterns,                    *)
(* FraudDetector._check_impossible_movements and                            *)
(* AdvancedBehaviorAnalyzer._verify_movement_plausibility, and              *)
(* PatternAnalyzer._detect_impossible_movements.                            *)
(* Points lie on the equator, longitudes in whole degrees, timestamps in    *)
(* seconds; natural_score is in units of 1e-5.                              *)

\* FraudDetector._calculate_distance: (lat_diff + lon_diff) * 111000
fd_calculate_distance(loc1, loc2) ==
    (Abs(loc1.lat - loc2.lat) + Abs(loc1.lon - loc2.lon)) * 111000

\* speed_kmh = (distance / 1000) / (time_diff / 3600) > 500
FdImpossibleSpeed(prev, curr) ==
    LET distance == fd_calculate_distance(prev, curr)
        time_diff == curr.timestamp - prev.timestamp
    IN  time_diff > 0 /\ distance * 36 > 5000 * time_diff

fd_check_impossible_movements(location_data) ==
    LET location_history == location_data.location_history
    IN  IF Len(location_history) < 2 THEN FALSE
        ELSE \E i \in 2..Len(location_history) :
                FdImpossibleSpeed(location_history[i - 1], location_history[i])

\* the speed test as the two other services make it
LvUnnaturalSpeedAt500Kmh(prev, curr) ==
    LET distance == lv_calculate_distance(prev, curr)
        time_diff == curr.timestamp - prev.timestamp
    IN  time_diff > 0 /\ distance * 36 > 5000 * time_diff

\* the speed test made on the size of the time difference
LvSpeedOfStalePair(prev, curr) ==
    LET distance == lv_calculate_distance(prev, curr)
        time_diff == curr.timestamp - prev.timestamp
    IN  time_diff # 0 /\ distance > 50 * Abs(time_diff)

\* speed = distance / time_diff > 50 (m/s)
LvUnnaturalSpeed(prev, curr) ==
    LET distance == lv_calculate_distance(prev, curr)
        time_diff == curr.timestamp - prev.timestamp
    IN  time_diff > 0 /\ distance > 50 * time_diff

\* on the equator: atan2(x, 0) is 90 eastwards, -90 % 360 westwards, and
\* atan2(0, 0) = 0 between two identical points
calculate_bearing(point1, point2) ==
    IF point2.lon > point1.lon THEN 90
    ELSE IF point2.lon < point1.lon THEN 270
    ELSE 0

\* variance < 10, with variance = sum((x - mean)^2) / n
VarianceBelowTen(values) ==
    Len(values) < 2
    \/ Len(values) * SumSquares(values) - SumSeq(values) * SumSeq(values)
          < 10 * Len(values) * Len(values)

check_straight_line_movement(locations) ==
    IF Len(locations) < 4 THEN FALSE
    ELSE VarianceBelowTen([i \in 1..(Len(locations) - 1) |->
                              calculate_bearing(locations[i], locations[i + 1])])

\* duplicate_ratio = 1 - unique / len > 0.3
check_repetitive_patterns(locations) ==
    IF Len(locations) < 6 THEN FALSE
    ELSE LET unique == Cardinality({<<locations[i].lat, locations[i].lon>> :
                                       i \in 1..Len(locations)})
         IN  10 * (Len(locations) - unique) > 3 * Len(locations)

lv_verify_movement_patterns(location_history) ==
    LET fast == Cardinality({i \in 2..Len(location_history) :
                    LvUnnaturalSpeed(location_history[i - 1], location_history[i])})
        straight == check_straight_line_movement(location_history)
        repetitive == check_repetitive_patterns(location_history)
        s1 == Halved(100000, fast)
        s2 == IF straight THEN (s1 * 7) \div 10 ELSE s1
        s3 == IF repetitive THEN (s2 * 8) \div 10 ELSE s2
    IN  IF Len(location_history) < 3
        THEN [natural_movement |-> TRUE, confidence |-> 50000, speed_issues |-> 0,
              issues |-> 1]
        ELSE [natural_movement |-> s3 >= 60000, confidence |-> s3,
              speed_issues |-> fast,
              issues |-> fast + (IF straight THEN 1 ELSE 0)
                             + (IF repetitive THEN 1 ELSE 0)]

\* one leg of a history: dlon degrees eastwards in dt seconds
MoveSteps ==
    { [dlon |-> 0, dt |-> 60],       \* at rest
      [dlon |-> 1, dt |-> 10000],    \* 11 m/s
      [dlon |-> 1, dt |-> 1000],     \* 111 m/s, 400 km/h
      [dlon |-> -1, dt |-> 1000],    \* the same, westwards
      [dlon |-> 1, dt |-> 800],      \* 139 m/s: 499.5 km/h on the flat grid, 500.4 on the sphere
      [dlon |-> 1, dt |-> 100],      \* 1112 m/s
      [dlon |-> 1, dt |-> 0],        \* two fixes with one timestamp
      [dlon |-> 1, dt |-> -100] }    \* a fix stamped earlier than the one before

MaxLegs == 3

RECURSIVE HistoryOf(_, _)
HistoryOf(start, legs) ==
    IF Len(legs) = 0 THEN <<start>>
    ELSE <<start>> \o HistoryOf([lat |-> 0, lon |-> start.lon + Head(legs).dlon,
                                 timestamp |-> start.timestamp + Head(legs).dt],
                                Tail(legs))

MoveHistories ==
    {HistoryOf([lat |-> 0, lon |-> 0, timestamp |-> 0], legs) :
        legs \in UNION {[1..n -> MoveSteps] : n \in 1..MaxLegs}}

NoMoveOut == [status |-> "none"]

MoveInit ==
    /\ move_history = <<>>
    /\ move_lv = NoMoveOut
    /\ move_fd = NoMoveOut
    /\ move_ba = NoMoveOut
    /\ move_pa = NoMoveOut

\* the histories a service may be given: any, or the one already submitted
OpenHistories == IF move_history = <<>> THEN MoveHistories ELSE {move_history}

\* the history is the one the other services were given, if any was
Submitted(location_history) ==
    /\ move_history = <<>> \/ move_history = location_history
    /\ move_history' = location_history

LvVerifyMovement ==
    /\ move_lv.status = "none"
    /\ \E location_history \in OpenHistories :
          /\ Submitted(location_history)
          /\ move_lv' = [status |-> "returned",
                         result |-> lv_verify_movement_patterns(location_history)]
    /\ UNCHANGED <<move_fd, move_ba, move_pa>>
    /\ UNCHANGED notMoveVars

FdCheckMovement ==
    /\ move_fd.status = "none"
    /\ \E location_history \in OpenHistories :
          /\ Submitted(location_history)
          /\ move_fd' = [status |-> "returned",
                         result |-> fd_check_impossible_movements(
                                        [location_history |-> location_history])]
    /\ UNCHANGED <<move_lv, move_ba, move_pa>>
    /\ UNCHANGED notMoveVars

BaVerifyMovement ==
    /\ move_ba.status = "none"
    /\ \E location_history \in OpenHistories :
          /\ Submitted(location_history)
          /\ move_ba' = [status |-> "returned",
                         result |-> verify_movement_plausibility(
                                        [location_history |-> location_history])]
    /\ UNCHANGED <<move_lv, move_fd, move_pa>>
    /\ UNCHANGED notMoveVars

\* the history as PatternAnalyzer's model reads it: thousandths of a degree
PaUnits(location_history) ==
    [i \in 1..Len(location_history) |->
        [lat |-> location_history[i].lat * 1000,
         lon |-> location_history[i].lon * 1000,
         timestamp |-> location_history[i].timestamp]]

PaDetectMovement ==
    /\ move_pa.status = "none"
    /\ \E location_history \in OpenHistories :
          /\ Submitted(location_history)
          /\ move_pa' = [status |-> "returned",
                         result |-> detect_impossible_movements(
                                        PaUnits(location_history))]
    /\ UNCHANGED <<move_lv, move_fd, move_ba>>
    /\ UNCHANGED notMoveVars

MoveNext == LvVerifyMovement \/ FdCheckMovement \/ BaVerifyMovement \/ PaDetectMovement

-----------------------------------------------------------------------------
(* The two haversine functions on one pair of points:                       *)
(* LocationVerificationService._calculate_distance and                      *)
(* AdvancedBehaviorAnalyzer._calculate_haversine_distance.                  *)
(* Coordinates in whole degrees, distances in metres rounded down.          *)

Point(lat, lon) == [lat |-> lat, lon |-> lon]

EquatorLongitudes == {0, 1, 30, 45, 60, 90, 120, 150, 179, 180}

OffEquator == {Point(lat, lon) : lat \in {8, 12, 30, 45, 60, 82}, lon \in {10, 77}}

Antipode(p) == Point(-p.lat, IF p.lon > 0 THEN p.lon - 180 ELSE p.lon + 180)

\* pairs of points of the equator, pairs of identical points, and pairs of
\* a point and its antipode, in both orders
DistancePairs ==
    {<<Point(0, a), Point(0, b)>> : a \in EquatorLongitudes, b \in EquatorLongitudes}
    \cup {<<p, p>> : p \in OffEquator}
    \cup {<<p, Antipode(p)>> : p \in OffEquator}
    \cup {<<Antipode(p), p>> : p \in OffEquator}

NoDistanceOut == [status |-> "none"]

DistanceInit ==
    /\ dist_pair = <<>>
    /\ dist_lv = NoDistanceOut
    /\ dist_ba = NoDistanceOut

\* the pair is the one the other function was given, if any was
SamePair(pair) ==
    /\ dist_pair = <<>> \/ dist_pair = pair
    /\ dist_pair' = pair

LvCalculateDistance ==
    /\ dist_lv.status = "none"
    /\ \E pair \in DistancePairs :
          /\ SamePair(pair)
          /\ dist_lv' = [status |-> "returned",
                         distance |-> lv_calculate_distance(pair[1], pair[2])]
    /\ UNCHANGED dist_ba
    /\ UNCHANGED notDistanceVars

BaCalculateDistance ==
    /\ dist_ba.status = "none"
    /\ \E pair \in DistancePairs :
          /\ SamePair(pair)
          /\ dist_ba' = [status |-> "returned",
                         distance |-> ba_calculate_haversine_distance(pair[1], pair[2])]
    /\ UNCHANGED dist_lv
    /\ UNCHANGED notDistanceVars

DistanceNext == LvCalculateDistance \/ BaCalculateDistance

-----------------------------------------------------------------------------
(* AdvancedClueGenerator._generate_clue_variants followed by                *)
(* _select_best_variant, for every clue type of ClueType and every outcome  *)
(* of the two LLM calls.                                                    *)

\* the values of the ClueType enumeration
ClueTypes ==
    {"riddle", "puzzle", "visual", "audio", "augmented_reality", "cryptographic"}

VariantPlayers == {r.player : r \in ClueRequests}

NoVariantsOut == [status |-> "none"]

VariantsInit == variants_out = NoVariantsOut

\* variants = _generate_clue_variants(...); _select_best_variant(variants, ...)
\* np.argmax raises ValueError on an empty list of scores
GenerateVariants ==
    /\ variants_out.status = "none"
    /\ \E clue_type \in ClueTypes, player \in VariantPlayers,
          gpt \in GptAnswers, gemini \in GeminiAnswers :
          LET variants == generate_clue_variants(clue_type, player, gpt, gemini)
          IN  variants_out' =
                 [status |-> IF Len(variants) = 0 THEN "raised" ELSE "returned",
                  clue_type |-> clue_type, player |-> player,
                  gpt |-> gpt, gemini |-> gemini,
                  variants |-> variants,
                  best_type |-> IF Len(variants) = 0 THEN ""
                                ELSE select_best_variant(variants, player, <<>>, 0).type]
    /\ UNCHANGED notVariantsVars

VariantsNext == GenerateVariants

-----------------------------------------------------------------------------
(* The capped histories: AnomalyDetector.behavior_profiles, the pattern     *)
(* histories of PatternAnalyzer and PromptEngine.prompt_history.  A         *)
(* timestamp is the arrival number of the entry within its store;           *)
(* profile_arrivals and prompt_arrivals remember every arrival, uncapped.   *)

BehaviorHistoryCap == 100

PromptHistoryCap == 100

MaxProfileUpdates == 101

MaxPrompts == 101

MaxRepeatedAnalyses == 1001

ProfilePlayers == {"p1", "p2"}

\* update_behavior_profile(player_id, player_data) at time t
update_behavior_profile(profiles, player_id, player_data, model, t) ==
    LET profile == IF player_id \in DOMAIN profiles THEN profiles[player_id]
                   ELSE [created_at |-> t, update_count |-> 0, behavior_history |-> <<>>]
        behavior_snapshot ==
            [timestamp |-> t,
             features |-> extract_anomaly_features(player_data),
             anomaly_score |-> detect_behavior_anomalies(player_data, model).result.anomaly_score]
        updated ==
            [created_at |-> profile.created_at,
             update_count |-> profile.update_count + 1,
             behavior_history |->
                 LastN(Append(profile.behavior_history, behavior_snapshot),
                          BehaviorHistoryCap)]
    IN  [p \in DOMAIN profiles \cup {player_id} |->
            IF p = player_id THEN updated ELSE profiles[p]]

\* _log_prompt(prompt_type, prompt) at time t; a prompt is given by its length
log_prompt(history, prompt_type, prompt, t) ==
    LastN(Append(history,
                    [type |-> prompt_type, timestamp |-> t, length |-> prompt.length,
                     first_100_chars |-> [length |-> Min(prompt.length, 100),
                                          ellipsis |-> prompt.length > 100]]),
             PromptHistoryCap)

\* the prompts of build_clue_prompt, build_hint_prompt, build_validation_prompt
LoggedPrompts ==
    { [type |-> "clue_generation", prompt |-> [length |-> 900]],
      [type |-> "hint_generation", prompt |-> [length |-> 400]],
      [type |-> "clue_validation", prompt |-> [length |-> 90]] }

\* the player analysed again and again: fast solving and a mock provider
RepeatedPlayerData ==
    PlayerDataOf([solving_times |-> <<10, 15>>, success_rate |-> 1000,
                  movement_efficiency |-> 990, interaction_patterns |-> NoInteraction],
                 [player_id |-> "p1", location_data |-> MockLocation,
                  communication_patterns |-> Sharing, social_connections |-> 11,
                  game_context |-> FullContext])

ProfileUpdates(p) == Len(profile_arrivals[p])

HistoryInit ==
    /\ behavior_profiles = << >>
    /\ profile_arrivals = [p \in ProfilePlayers |-> <<>>]
    /\ prompt_history = <<>>
    /\ prompt_arrivals = <<>>

\* /analyze-behavior with a player_id: update_behavior_profile; p1 is updated
\* again and again, p2 once, at any moment
UpdateBehaviorProfile ==
    /\ nanalyses = 0
    /\ prompt_arrivals = <<>>
    /\ \E player_id \in ProfilePlayers, player_data \in {[avg_solving_time |-> 25,
                success_rate |-> 920, movement_efficiency |-> 500, hint_usage_rate |-> 50]} :
          LET t == ProfileUpdates("p1") + ProfileUpdates("p2") + 1
              done == detect_behavior_anomalies(player_data, anomaly_model)
          IN  /\ IF player_id = "p1" THEN ProfileUpdates("p1") < MaxProfileUpdates
                                      ELSE ProfileUpdates(player_id) = 0
              /\ behavior_profiles' =
                    update_behavior_profile(behavior_profiles, player_id, player_data,
                                            anomaly_model, t)
              /\ profile_arrivals' =
                    [profile_arrivals EXCEPT ![player_id] = Append(@, t)]
              /\ anomaly_model_calls' = anomaly_model_calls + done.model_calls
    /\ UNCHANGED <<prompt_history, prompt_arrivals, anomaly_model, anomaly_out, ndetections>>
    /\ UNCHANGED notHistoryOrAnomalyVars

\* a build_*_prompt call: the prompt is logged; one kind of prompt per run
LogPrompt ==
    /\ nanalyses = 0
    /\ \A p \in ProfilePlayers : profile_arrivals[p] = <<>>
    /\ Len(prompt_arrivals) < MaxPrompts
    /\ \E logged \in LoggedPrompts :
          LET t == Len(prompt_arrivals) + 1
          IN  /\ prompt_history # <<>> => prompt_history[1].type = logged.type
              /\ prompt_history' = log_prompt(prompt_history, logged.type, logged.prompt, t)
              /\ prompt_arrivals' = Append(prompt_arrivals, t)
    /\ UNCHANGED <<behavior_profiles, profile_arrivals>>
    /\ UNCHANGED notHistoryVars

\* analyze_behavior_patterns, called again and again for one player
RepeatedAnalysis ==
    /\ nanalyses < MaxRepeatedAnalyses
    /\ prompt_arrivals = <<>>
    /\ \A p \in ProfilePlayers : profile_arrivals[p] = <<>>
    /\ analyze_behavior_patterns(RepeatedPlayerData, FullContext)

HistoryNext == UpdateBehaviorProfile \/ LogPrompt \/ RepeatedAnalysis

-----------------------------------------------------------------------------
(* retry_on_exception(max_retries, delay) of utils/helpers.py: one call of  *)
(* the wrapper around a function whose every invocation returns, raises an  *)
(* Exception or raises a BaseException that is no Exception.  retry_trace   *)
(* remembers every invocation and every sleep of the call.                  *)

MaxRetriesLimit == 6

RetryDelays == {0, 1, 2, 3, 5}

\* the names bound at module level of helpers.py: its imports, logger and its
\* own definitions
HelpersGlobals ==
    {"hashlib", "hmac", "json", "logging", "Any", "Dict", "List", "datetime",
     "timedelta", "random", "string", "logger", "HelperFunctions", "setup_logging",
     "retry_on_exception"}

\* except Exception as e: if attempt == max_retries - 1: raise e
after_exception(attempt, max_retries) ==
    IF attempt = max_retries - 1 THEN "raise" ELSE "sleep"

\* delay * (2 ** attempt)
backoff(delay, attempt) == delay * 2^attempt

\* time.sleep(...): the lookup of the global name time comes first
time_sleep(seconds) == IF "time" \in HelpersGlobals THEN "slept" ELSE "NameError"

NoRetryRun ==
    [pc |-> "idle", max_retries |-> 0, delay |-> 0, attempt |-> 0, outcome |-> "none",
     of_attempt |-> 0]

Invocation(attempt, outcome) ==
    [event |-> "invoke", attempt |-> attempt, outcome |-> outcome, seconds |-> 0]

RetryInit ==
    /\ retry_run = NoRetryRun
    /\ retry_trace = <<>>

\* wrapper(*args, **kwargs): for attempt in range(max_retries); an empty range
\* falls through to return None
CallWrapper ==
    /\ retry_run.pc = "idle"
    /\ \E max_retries \in 0..MaxRetriesLimit, delay \in RetryDelays :
          retry_run' =
              IF max_retries = 0
              THEN [NoRetryRun EXCEPT !.pc = "returned", !.delay = delay,
                                      !.outcome = "None"]
              ELSE [NoRetryRun EXCEPT !.pc = "try", !.max_retries = max_retries,
                                      !.delay = delay]
    /\ UNCHANGED retry_trace
    /\ UNCHANGED notRetryVars

\* return func(*args, **kwargs), the function returns
FuncReturns ==
    /\ retry_run.pc = "try"
    /\ retry_run' = [retry_run EXCEPT !.pc = "returned", !.outcome = "result",
                                      !.of_attempt = retry_run.attempt]
    /\ retry_trace' = Append(retry_trace, Invocation(retry_run.attempt, "returned"))
    /\ UNCHANGED notRetryVars

\* the function raises an Exception: the last attempt re-raises it; any other
\* logs a warning and sleeps, and what the sleep raises leaves the wrapper
FuncRaises ==
    /\ retry_run.pc = "try"
    /\ LET attempt == retry_run.attempt
           seconds == backoff(retry_run.delay, attempt)
           invoked == Append(retry_trace, Invocation(attempt, "Exception"))
           slept == Append(invoked, [event |-> "sleep", attempt |-> attempt,
                                     outcome |-> time_sleep(seconds),
                                     seconds |-> seconds])
       IN  IF after_exception(attempt, retry_run.max_retries) = "raise"
           THEN /\ retry_run' = [retry_run EXCEPT !.pc = "raised", !.outcome = "Exception",
                                                  !.of_attempt = attempt]
                /\ retry_trace' = invoked
           ELSE /\ retry_run' =
                      IF time_sleep(seconds) = "slept"
                      THEN [retry_run EXCEPT !.attempt = attempt + 1]
                      ELSE [retry_run EXCEPT !.pc = "raised",
                                             !.outcome = time_sleep(seconds),
                                             !.of_attempt = attempt]
                /\ retry_trace' = slept
    /\ UNCHANGED notRetryVars

\* the function raises a BaseException outside Exception (KeyboardInterrupt,
\* SystemExit): except Exception does not catch it
FuncInterrupted ==
    /\ retry_run.pc = "try"
    /\ retry_run' = [retry_run EXCEPT !.pc = "raised", !.outcome = "BaseException",
                                      !.of_attempt = retry_run.attempt]
    /\ retry_trace' = Append(retry_trace, Invocation(retry_run.attempt, "BaseException"))
    /\ UNCHANGED notRetryVars

RetryNext == CallWrapper \/ FuncReturns \/ FuncRaises \/ FuncInterrupted

-----------------------------------------------------------------------------
(* FraudDetector.detect_fraud_patterns, log_suspicious_activity and the      *)
(* /detect-fraud-patterns endpoint of main.py.  Risk scores are thousandths. *)
(* A key of suspicious_activities is the md5 digest of the logged text,      *)
(* written as the text it digests; a device fingerprint is a client's string *)
(* or, for a client that knows a digest, that digest.                        *)

MaxFraudCalls == 2

fraud_patterns ==
    [location_spoofing |->
        [risk_score |-> 800, mitigation |-> "require_additional_verification"],
     multiple_accounts |->
        [risk_score |-> 700, mitigation |-> "investigate_relationships"],
     automation_detection |->
        [risk_score |-> 900, mitigation |-> "challenge_response_test"],
     collaborative_cheating |->
        [risk_score |-> 600, mitigation |-> "monitor_social_graph"]]

\* evidence.append(item) under a condition
AppendIf(evidence, condition, item) ==
    IF condition THEN Append(evidence, item) ELSE evidence

\* d.get(key, default) of a dict
GetOr(d, key, default) == IF key \in DOMAIN d THEN d[key] ELSE default

Finding(evidence, risk_when_detected) ==
    [detected |-> evidence # <<>>, evidence |-> evidence,
     risk_level |-> IF evidence # <<>> THEN risk_when_detected ELSE "low"]

fd_check_coordinate_rounding(location_data) ==
    LET locations == location_data.locations
        rounded_count ==
            Cardinality({i \in 1..Len(locations) :
                            fd_is_rounded_coordinate(locations[i].lat, locations[i].lon)})
    IN  IF locations = <<>> THEN FALSE ELSE 2 * rounded_count > Len(locations)

fd_detect_location_fraud(player_data) ==
    LET location_data == player_data.location_data
        e1 == AppendIf(<<>>, location_data.is_mock_provider,
                       [text |-> "Mock location provider detected", value |-> 0])
        e2 == AppendIf(e1, location_data.gps_accuracy > 1000,
                       [text |-> "Poor GPS accuracy", value |-> location_data.gps_accuracy])
        e3 == AppendIf(e2, fd_check_impossible_movements(location_data),
                       [text |-> "Impossible movement patterns detected", value |-> 0])
        e4 == AppendIf(e3, fd_check_coordinate_rounding(location_data),
                       [text |-> "Suspicious coordinate rounding detected", value |-> 0])
    IN  Finding(e4, "high")

\* similar_players is given by its length
fd_detect_multiple_accounts(player_data, game_context, activities) ==
    LET device_fingerprint == player_data.device_fingerprint
        account_count ==
            IF device_fingerprint \in DOMAIN activities
            THEN GetOr(activities[device_fingerprint], "account_count", 0)
            ELSE 0
        similar_players == game_context.similar_players
        ip_players == GetOr(game_context.players_per_ip, player_data.ip_address, 0)
        e1 == AppendIf(<<>>, account_count > 2,
                       [text |-> "Same device used for N accounts", value |-> account_count])
        e2 == AppendIf(e1, similar_players > 3,
                       [text |-> "Similar behavior patterns with N other players",
                        value |-> similar_players])
        e3 == AppendIf(e2, ip_players > 5,
                       [text |-> "Multiple players from same IP address",
                        value |-> ip_players])
    IN  Finding(e3, "medium")

\* std_dev < 5 on the population variance:  n * sum(x^2) - sum(x)^2 < 25 * n^2
fd_detect_automation(player_data) ==
    LET solving_times == player_data.solving_times
        n == Len(solving_times)
        total == SumSeq(solving_times)
        e1 == AppendIf(<<>>, n > 0 /\ total < 30 * n,
                       [text |-> "Unnaturally fast solving", value |-> total])
        e2 == AppendIf(e1, n > 5 /\ n * SumSquares(solving_times) - total * total < 25 * n * n,
                       [text |-> "Suspiciously consistent timing", value |-> 0])
        e3 == AppendIf(e2, player_data.success_rate > 950,
                       [text |-> "Unnaturally high success rate",
                        value |-> player_data.success_rate])
        e4 == AppendIf(e3, player_data.movement_efficiency > 980,
                       [text |-> "Perfect movement efficiency",
                        value |-> player_data.movement_efficiency])
    IN  Finding(e4, "high")

fd_check_information_sharing(player_data, game_context) ==
    player_data.communication_frequency > 10 /\ game_context.similar_solutions > 5

\* the mean of the differences of neighbours is (last - first) / (n - 1)
fd_check_rapid_succession_solves(player_data) ==
    LET solve_times == player_data.recent_solve_times
        n == Len(solve_times)
    IN  IF n < 3 THEN FALSE
        ELSE solve_times[n] - solve_times[1] < 60 * (n - 1)

fd_detect_collaborative_cheating(player_data, game_context) ==
    LET e1 == AppendIf(<<>>, fd_check_information_sharing(player_data, game_context),
                       [text |-> "Suspicious information sharing detected", value |-> 0])
        e2 == AppendIf(e1, player_data.player_id \in game_context.coordinated_movements,
                       [text |-> "Coordinated movement patterns detected", value |-> 0])
        e3 == AppendIf(e2, fd_check_rapid_succession_solves(player_data),
                       [text |-> "Rapid succession puzzle solving detected", value |-> 0])
    IN  Finding(e3, "medium")

FraudChecks ==
    << [pattern |-> "location_spoofing", key |-> "location"],
       [pattern |-> "multiple_accounts", key |-> "multi_account"],
       [pattern |-> "automation_detection", key |-> "automation"],
       [pattern |-> "collaborative_cheating", key |-> "collaboration"] >>

generate_fraud_recommendations(patterns) ==
    IF patterns = <<>> THEN << "No immediate action required" >>
    ELSE [i \in 1..Len(patterns) |->
             [pattern |-> patterns[i], mitigation |-> fraud_patterns[patterns[i]].mitigation]]

\* min(1.0, total_evidence / 10)
calculate_fraud_confidence(evidence) ==
    Min(1000, 100 * SumSeq([i \in 1..Len(FraudChecks) |->
                              IF FraudChecks[i].key \in DOMAIN evidence
                              THEN Len(evidence[FraudChecks[i].key]) ELSE 0]))

\* a threshold that takes the catalog risk 0.7 as high
LogsFromSevenTenths(fraud_result) == fraud_result.risk_score >= 700

\* if fraud_result['risk_score'] > 0.7
is_high_risk_fraud(fraud_result) == fraud_result.risk_score > 700

fd_detect_fraud_patterns(player_data, game_context, activities) ==
    LET found ==
            [location_spoofing |-> fd_detect_location_fraud(player_data),
             multiple_accounts |->
                 fd_detect_multiple_accounts(player_data, game_context, activities),
             automation_detection |-> fd_detect_automation(player_data),
             collaborative_cheating |->
                 fd_detect_collaborative_cheating(player_data, game_context)]
        hits == {i \in 1..Len(FraudChecks) : found[FraudChecks[i].pattern].detected}
        detected_patterns ==
            [i \in 1..Cardinality(hits) |->
                FraudChecks[CHOOSE j \in hits : Cardinality({h \in hits : h < j}) = i - 1].pattern]
        risks == {fraud_patterns[FraudChecks[i].pattern].risk_score : i \in hits}
        evidence ==
            [k \in {FraudChecks[i].key : i \in hits} |->
                found[FraudChecks[CHOOSE i \in hits : FraudChecks[i].key = k].pattern].evidence]
    IN  [detected_patterns |-> detected_patterns,
         risk_score |-> IF risks = {} THEN 0 ELSE CHOOSE r \in risks : \A q \in risks : q <= r,
         evidence |-> evidence,
         recommendations |-> generate_fraud_recommendations(detected_patterns),
         confidence |-> calculate_fraud_confidence(evidence)]

\* an entry that spreads the details over the entry itself
LogDetailsAtTopLevel(activities, player_id, activity_type, details, t) ==
    LET activity_hash == [md5_of |-> <<player_id, activity_type, details>>]
        entry == [k \in {"player_id", "activity_type", "timestamp", "reviewed"}
                           \cup DOMAIN details |->
                     IF k \in DOMAIN details THEN details[k]
                     ELSE [player_id |-> player_id, activity_type |-> activity_type,
                           timestamp |-> t, reviewed |-> FALSE][k]]
    IN  [h \in DOMAIN activities \cup {activity_hash} |->
            IF h = activity_hash THEN entry ELSE activities[h]]

\* log_suspicious_activity(player_id, activity_type, details) at time t
log_suspicious_activity(activities, player_id, activity_type, details, t) ==
    LET activity_hash == [md5_of |-> <<player_id, activity_type, details>>]
        entry == [player_id |-> player_id, activity_type |-> activity_type,
                  details |-> details, timestamp |-> t, reviewed |-> FALSE]
    IN  [h \in DOMAIN activities \cup {activity_hash} |->
            IF h = activity_hash THEN entry ELSE activities[h]]

CleanFraudLocation ==
    [is_mock_provider |-> FALSE, gps_accuracy |-> 10, location_history |-> <<>>,
     locations |-> <<>>]

CleanFraudPlayer ==
    [player_id |-> "p1", location_data |-> CleanFraudLocation,
     device_fingerprint |-> [device |-> "device-1"], ip_address |-> "10.0.0.1",
     solving_times |-> <<100, 200>>, success_rate |-> 500, movement_efficiency |-> 500,
     communication_frequency |-> 0, recent_solve_times |-> <<>>]

CleanFraudContext ==
    [similar_players |-> 0, players_per_ip |-> [ip \in {"10.0.0.1"} |-> 1],
     coordinated_movements |-> {}, similar_solutions |-> 0]

FraudRequest(player_data, game_context) ==
    [player_data |-> player_data, game_context |-> game_context]

\* every combination of a mock provider, fast solving and the two context
\* counts of the account check
CombinedFraudRequests ==
    {FraudRequest(
        [CleanFraudPlayer EXCEPT
            !.location_data.is_mock_provider = mock,
            !.solving_times = IF fast THEN <<10, 15>> ELSE <<100, 200>>],
        [CleanFraudContext EXCEPT
            !.similar_players = m[1],
            !.players_per_ip = [ip \in {"10.0.0.1"} |-> m[2]]]) :
        mock \in BOOLEAN, fast \in BOOLEAN, m \in {<<0, 1>>, <<4, 1>>, <<0, 6>>}}

\* one check at a time, at and beyond its threshold
SingleFraudRequests ==
    {FraudRequest(pd, CleanFraudContext) :
        pd \in {[CleanFraudPlayer EXCEPT !.location_data.gps_accuracy = 1000],
                [CleanFraudPlayer EXCEPT !.location_data.gps_accuracy = 1001],
                [CleanFraudPlayer EXCEPT !.location_data.location_history =
                    << [lat |-> 0, lon |-> 0, timestamp |-> 0],
                       [lat |-> 1, lon |-> 0, timestamp |-> 60] >>],
                [CleanFraudPlayer EXCEPT !.location_data.locations =
                    << [lat |-> [kind |-> "float", neg |-> FALSE, whole |-> 12,
                                 frac |-> <<5>>],
                        lon |-> [kind |-> "int", neg |-> FALSE, whole |-> 12,
                                 frac |-> <<>>]] >>],
                [CleanFraudPlayer EXCEPT !.solving_times = <<100, 101, 100, 101, 100, 101>>],
                [CleanFraudPlayer EXCEPT !.success_rate = 950],
                [CleanFraudPlayer EXCEPT !.success_rate = 960],
                [CleanFraudPlayer EXCEPT !.movement_efficiency = 990],
                [CleanFraudPlayer EXCEPT !.recent_solve_times = <<0, 30, 60>>]}}
    \cup {FraudRequest([CleanFraudPlayer EXCEPT !.communication_frequency = 11], ctx) :
        ctx \in {[CleanFraudContext EXCEPT !.similar_solutions = 6],
                 [CleanFraudContext EXCEPT !.similar_solutions = 6, !.similar_players = 4],
                 [CleanFraudContext EXCEPT !.coordinated_movements = {"p1"}],
                 [CleanFraudContext EXCEPT !.similar_players = 3,
                     !.players_per_ip = [ip \in {"10.0.0.1"} |-> 5]]}}

FraudRequests == CombinedFraudRequests \cup SingleFraudRequests

\* what a caller of log_suspicious_activity may pass as details
ReportedDetails == {[account_count |-> 5]}

NoFraudOut == [status |-> "none"]

FraudInit ==
    /\ suspicious_activities = << >>
    /\ fraud_out = NoFraudOut
    /\ nfraud = 0

\* POST /detect-fraud-patterns; the device fingerprint is the client's own or
\* the digest of a logged entry
DetectFraudEndpoint ==
    /\ nfraud < MaxFraudCalls
    /\ \E request \in FraudRequests,
          device_fingerprint \in {CleanFraudPlayer.device_fingerprint}
                                    \cup DOMAIN suspicious_activities :
          LET player_data == [request.player_data EXCEPT
                                 !.device_fingerprint = device_fingerprint]
              fraud_result == fd_detect_fraud_patterns(player_data, request.game_context,
                                                       suspicious_activities)
          IN  /\ suspicious_activities' =
                    IF is_high_risk_fraud(fraud_result)
                    THEN log_suspicious_activity(suspicious_activities,
                                                 player_data.player_id, "high_risk_fraud",
                                                 fraud_result, nfraud + 1)
                    ELSE suspicious_activities
              /\ fraud_out' = [status |-> "returned", fraud_analysis |-> fraud_result,
                               device_fingerprint |-> device_fingerprint,
                               at |-> nfraud + 1]
    /\ nfraud' = nfraud + 1
    /\ UNCHANGED notFraudVars

\* log_suspicious_activity called by other code, with details of its own
LogSuspiciousActivity ==
    /\ nfraud < MaxFraudCalls
    /\ \E details \in ReportedDetails :
          suspicious_activities' =
              log_suspicious_activity(suspicious_activities, "p1", "manual_report",
                                      details, nfraud + 1)
    /\ nfraud' = nfraud + 1
    /\ UNCHANGED fraud_out
    /\ UNCHANGED notFraudVars

FraudNext == DetectFraudEndpoint \/ LogSuspiciousActivity

-----------------------------------------------------------------------------
(* generate_contextual_clue called by several players of one place:         *)
(* clue_log remembers each call's request and what it returned.             *)

\* the latitude of Harbour sent as 12.0 where Harbour sends 12
HarbourAsFloat == [Harbour EXCEPT !.lat.kind = "float"]

SharingRequests ==
    { [location |-> Temple, player |-> Novice,
       hunt_context |-> [theme |-> "pirate", difficulty |-> "easy"],
       previous_clues |-> <<>>],
      [location |-> TempleGate,
       player |-> [Novice EXCEPT !.success_rate = 90000, !.learning_style = "kinesthetic",
                                 !.cultural_context = "indian"],
       hunt_context |-> [theme |-> "pirate", difficulty |-> "hard"],
       previous_clues |-> <<[text |-> GptText]>>],
      [location |-> Temple, player |-> Novice,
       hunt_context |-> [theme |-> "space", difficulty |-> "easy"],
       previous_clues |-> <<>>],
      [location |-> Harbour, player |-> Novice,
       hunt_context |-> [theme |-> "pirate", difficulty |-> "easy"],
       previous_clues |-> <<>>],
      [location |-> HarbourAsFloat, player |-> Novice,
       hunt_context |-> [theme |-> "pirate", difficulty |-> "easy"],
       previous_clues |-> <<>>] }

ShareInit == clue_log = <<>>

\* generate_contextual_clue, the request and the outcome kept
SharedGenerateClue ==
    /\ nclue_calls < MaxClueCalls
    /\ nclue_calls' = nclue_calls + 1
    /\ \E r \in SharingRequests, gpt \in GptAnswers, gemini \in GeminiAnswers :
          /\ generate_contextual_clue(r.location, r.player, r.hunt_context,
                                      r.previous_clues, gpt, gemini)
          /\ clue_log' = Append(clue_log,
                                [request |-> r, at |-> clue_now, hit |-> clue_out'.hit,
                                 clue |-> clue_out'.clue, cache_hits |-> cache_hits',
                                 generation_count |-> generation_count'])
    /\ UNCHANGED clue_now
    /\ UNCHANGED notShareOrClueVars

ShareNext == SharedGenerateClue \/ ClueTick

Init ==
    /\ TrustInit /\ PatternInit /\ CoordInit
    /\ LocationInit /\ ClueInit /\ VerifyInit
    /\ AnomalyInit
    /\ GeminiInit
    /\ MoveInit
    /\ DistanceInit
    /\ VariantsInit
    /\ HistoryInit
    /\ RetryInit
    /\ FraudInit
    /\ ShareInit

Next ==
    \/ TrustNext \/ PatternNext \/ CoordNext
    \/ LocationNext \/ ClueNext \/ VerifyNext
    \/ AnomalyNext
    \/ GeminiNext
    \/ MoveNext
    \/ DistanceNext
    \/ VariantsNext
    \/ HistoryNext
    \/ RetryNext
    \/ FraudNext
    \/ ShareNext

Spec == Init /\ [][Next]_vars

SpecTrust == Init /\ [][TrustNext]_vars

SpecDecay == Init /\ [][DecayNext]_vars

SpecPattern == Init /\ [][PatternNext]_vars

SpecCoord == Init /\ [][CoordNext]_vars

SpecLocation == Init /\ [][LocationNext]_vars

SpecClue == Init /\ [][ClueNext]_vars

SpecVerify == Init /\ [][VerifyNext]_vars

SpecAnomaly == Init /\ [][AnomalyNext]_vars

SpecGemini == Init /\ [][GeminiNext]_vars

SpecMove == Init /\ [][MoveNext]_vars

SpecDistance == Init /\ [][DistanceNext]_vars

SpecVariants == Init /\ [][VariantsNext]_vars

SpecHistory == Init /\ [][HistoryNext]_vars

SpecRetry == Init /\ [][RetryNext]_vars

SpecFraud == Init /\ [][FraudNext]_vars

SpecShare == Init /\ [][ShareNext]_vars

-----------------------------------------------------------------------------
(* Claims about TrustScorer, checked under SpecTrust                         *)

\* C1: whenever calculate_trust_score returns, the returned 'trust_score'
\* lies in [0,1], whatever the magnitude or sign of the numeric inputs.
C1_TrustScoreInUnitInterval ==
    trust_out.status = "returned" =>
        (0 <= trust_out.trust_score /\ trust_out.trust_score <= 1000)

\* a call returned although its unclamped score was far outside [0,1]
C1_Witness ==
    /\ trust_out.status = "returned"
    /\ trust_out.decayed > 1000
    /\ trust_out.trust_score = 1000

\* C2 (as stated): when a player is scored N whole days after the prior
\* scoring, the decay step produces prior_stored_score * 0.95^N.
C2_DecayAppliesToPriorScore ==
    (trust_out.status = "returned" /\ trust_out.had_prior) =>
        trust_out.decayed = Decay(trust_out.prior_score, trust_out.days)

\* C9: most recent write wins.  trust_history has exactly the players that
\* were scored at least once; right after a call for a player the entry is
\* the score and timestamp that call wrote; and a step that is not a
\* returning call for player p leaves p's entry as it was.
C9_HistoryDomain == DOMAIN trust_history = scored

C9_LatestCallWritten ==
    (trust_out.status = "returned" /\ trust_out.player_id # NoPlayer) =>
        /\ trust_out.player_id \in DOMAIN trust_history
        /\ trust_history[trust_out.player_id] =
              [timestamp |-> trust_out.at, score |-> trust_out.decayed]

C9_OthersUntouched ==
    \A p \in DOMAIN trust_history :
        (~(ncalls' = ncalls + 1 /\ trust_out'.status = "returned"
             /\ trust_out'.player_id = p))
          => (p \in DOMAIN trust_history' /\ trust_history'[p] = trust_history[p])

-----------------------------------------------------------------------------
(* Claims about PatternAnalyzer, checked under SpecPattern                   *)

Detected == SeqRange(pattern_out.detected_patterns)

\* the player of claim C3: success_rate = 1.0, a non-empty solving_times with
\* a mean below 20 s, movement_efficiency > 0.98
C3_Player ==
    /\ pattern_out.status = "returned"
    /\ pattern_out.player_data.success_rate = 1000
    /\ Len(pattern_out.player_data.solving_times) > 0
    /\ MeanBelow(pattern_out.player_data.solving_times, 20)
    /\ pattern_out.player_data.movement_efficiency > 980

\* C3 (as stated): such a player is detected under at least both
\* 'automation_detection' and 'speed_hacking'.
C3_BothPatternsDetected ==
    C3_Player => {"automation_detection", "speed_hacking"} \subseteq Detected

\* C3 (amended): such a player is always detected under 'speed_hacking';
\* it is detected under 'automation_detection' exactly when, besides the
\* movement efficiency, a second automation indicator fires: more than 5
\* solving times with timing consistency > 0.9, or mechanical interaction
\* patterns.
C3_SpeedAlwaysAutomationNeedsSecondIndicator ==
    C3_Player =>
        /\ "speed_hacking" \in Detected
        /\ "automation_detection" \in Detected <=>
              \/ /\ Len(pattern_out.player_data.solving_times) > 5
                 /\ calculate_timing_consistency(pattern_out.player_data.solving_times) > 900
              \/ has_mechanical_patterns(pattern_out.player_data.interaction_patterns)

\* the player of C3 with only two solving times and no mechanical pattern:
\* speed_hacking is detected, automation_detection (score 0.6) is not
C3_Witness ==
    /\ C3_Player
    /\ "speed_hacking" \in Detected
    /\ "automation_detection" \notin Detected
    /\ pattern_out.pattern_scores["automation_detection"] = 600

\* the thresholds of the catalog, as the specification of C7 reads them
C7_Threshold(n) ==
    CASE n = "speed_hacking" -> 800
      [] n = "location_spoofing" -> 700
      [] n = "multiple_accounts" -> 600
      [] n = "automation_detection" -> 750
      [] n = "collaborative_cheating" -> 650

\* C7: every one of the five patterns has a score in [0,1]; it is in
\* detected_patterns iff its score >= its threshold; the keys of 'evidence'
\* are exactly the detected patterns; pattern_scores has all five patterns.
C7_DetectedIffAtThreshold ==
    pattern_out.status = "returned" =>
        /\ DOMAIN pattern_out.pattern_scores = PatternNameSet
        /\ DOMAIN pattern_out.evidence = Detected
        /\ \A n \in PatternNameSet :
              /\ 0 <= pattern_out.pattern_scores[n]
              /\ pattern_out.pattern_scores[n] <= 1000
              /\ n \in Detected <=> pattern_out.pattern_scores[n] >= C7_Threshold(n)

\* a pattern detected with a score equal to its threshold, next to a pattern
\* with a positive score below its threshold
C7_Witness ==
    /\ pattern_out.status = "returned"
    /\ pattern_out.pattern_scores["speed_hacking"] = 800
    /\ "speed_hacking" \in Detected
    /\ pattern_out.pattern_scores["location_spoofing"] = 600
    /\ "location_spoofing" \notin Detected

C8_Scores == {pattern_out.pattern_scores[n] : n \in PatternNameSet}

\* C8: overall_risk_score = sum(score_p * weight_p) / sum(weight_p) over all
\* five patterns (weights 0.9, 0.8, 0.7, 0.85, 0.6); it lies in [0,1],
\* between the smallest and the largest pattern score.
C8_OverallRiskIsWeightedAverage ==
    pattern_out.status = "returned" =>
        /\ pattern_out.overall_risk_score =
              (pattern_out.pattern_scores["speed_hacking"] * 90
               + pattern_out.pattern_scores["location_spoofing"] * 80
               + pattern_out.pattern_scores["multiple_accounts"] * 70
               + pattern_out.pattern_scores["automation_detection"] * 85
               + pattern_out.pattern_scores["collaborative_cheating"] * 60)
              \div (90 + 80 + 70 + 85 + 60)
        /\ 0 <= pattern_out.overall_risk_score
        /\ pattern_out.overall_risk_score <= 1000
        /\ \E x \in C8_Scores : x <= pattern_out.overall_risk_score
        /\ \E x \in C8_Scores : pattern_out.overall_risk_score <= x

\* some patterns detected, some not, and the risk strictly between the
\* smallest and the largest score
C8_Witness ==
    /\ pattern_out.status = "returned"
    /\ Detected # {} /\ Detected # PatternNameSet
    /\ \E x \in C8_Scores : x < pattern_out.overall_risk_score
    /\ \E x \in C8_Scores : pattern_out.overall_risk_score < x

-----------------------------------------------------------------------------
(* Claims about _is_rounded_coordinate, checked under SpecCoord             *)

\* the number of digits after the decimal point of a coordinate value
DecimalDigits(c) == IF c.kind = "int" THEN 0 ELSE Len(c.frac)

\* C4: _is_rounded_coordinate(lat, lon) returns True whenever at least one
\* of the two coordinates has fewer than 4 digits after the decimal point
\* (values with no fractional part included), and False only when both have
\* 4 or more.
C4_RoundedIffFewDecimals ==
    coord_out.status = "returned" =>
        (coord_out.result <=>
            \/ DecimalDigits(coord_out.lat) < 4
            \/ DecimalDigits(coord_out.lon) < 4)

-----------------------------------------------------------------------------
(* Claims about LocationVerificationService, checked under SpecLocation     *)

\* C6: overall_confidence is the sum over gps, wifi, cell, bluetooth and ip
\* of the method's confidence times its weight (0.4, 0.25, 0.2, 0.1, 0.05),
\* and verified is True iff overall_confidence >= 0.7.
C6_WeightedSumAndThreshold ==
    loc_out.status = "returned" =>
        /\ DOMAIN loc_out.verification_methods =
               {"gps", "wifi", "cell", "bluetooth", "ip"}
        /\ loc_out.overall_confidence =
                 loc_out.verification_methods["gps"].confidence * 40
               + loc_out.verification_methods["wifi"].confidence * 25
               + loc_out.verification_methods["cell"].confidence * 20
               + loc_out.verification_methods["bluetooth"].confidence * 10
               + loc_out.verification_methods["ip"].confidence * 5
        /\ loc_out.verified <=> loc_out.overall_confidence >= 70000

\* a verified location to which each of the five methods contributes, the
\* five confidences being different from one another
C6_Witness ==
    /\ loc_out.status = "returned"
    /\ loc_out.verified
    /\ \A m \in DOMAIN loc_out.verification_methods :
          loc_out.verification_methods[m].confidence > 0
    /\ Cardinality({loc_out.verification_methods[m].confidence :
                       m \in DOMAIN loc_out.verification_methods}) >= 4

-----------------------------------------------------------------------------
(* Claims about the clue cache, checked under SpecClue                      *)

\* a generate_contextual_clue call that directly follows a call which
\* generated and stored a clue, maps to the same cache key and falls within
\* the 3600 s of the entry's life
C5_FollowingCallInTtl ==
    /\ nclue_calls' = nclue_calls + 1
    /\ clue_out.status = "returned"
    /\ ~clue_out.hit
    /\ clue_out'.cache_key = clue_out.cache_key
    /\ clue_now' < clue_out.at + 3600

\* C5: after a call has generated and stored a clue, the immediately
\* following call with the same cache key within the 3600 s TTL returns the
\* decoded cache entry, which is identical to the clue the first call stored
\* and returned; no LLM is invoked and no clue is generated.
C5_CacheRoundTrip ==
    [][C5_FollowingCallInTtl =>
          /\ clue_out'.hit
          /\ clue_out'.clue = clue_out.clue
          /\ clue_out'.clue = json_loads(clue_cache[clue_out.cache_key].value)
          /\ clue_out'.llm_calls = 0
          /\ generation_count' = generation_count
          /\ cache_hits' = cache_hits + 1
          /\ clue_cache' = clue_cache]_vars

\* a clue written by GPT-4 is served from the cache, some time after it was
\* generated, to the second of two calls
C5_Witness ==
    /\ clue_out.status = "returned"
    /\ clue_out.hit
    /\ clue_out.clue.type = "gpt4"
    /\ clue_out.clue.crypto_proof.timestamp.iso < clue_out.at
    /\ generation_count = 1
    /\ cache_hits = 1

-----------------------------------------------------------------------------
(* Claims about comprehensive_verification, checked under SpecVerify        *)

\* C10: when one of the five awaited sub-checks raises, a neutral value
\* stands in for it and the verification still returns a result to the
\* caller; the failure is not propagated as an error.
C10_SubCheckFailureTolerated ==
    (ver_pc = "done" /\ \E c \in SubChecks : ver_results[c].status = "raised")
        => ver_out.status = "success"

-----------------------------------------------------------------------------
(* Further claims about comprehensive_location_verification (SpecLocation)  *)

MethodSet == {VerificationMethods[i] : i \in 1..Len(VerificationMethods)}

\* what a method adds to overall_confidence: nothing when it raises
C11_Contribution(name, ld) ==
    IF MethodRaises(name, ld) THEN 0
    ELSE MethodResult(name, ld).confidence * method_weights[name]

\* C11: a verification method that raises is recorded as {verified: False,
\* confidence: 0.0, error}, adds 0 to overall_confidence and keeps none of
\* the other four methods from being evaluated and weighted; the call
\* returns a result whatever subset of the methods fails.
C11_FailedMethodIsolated ==
    loc_out.status = "returned" =>
        LET ld == loc_out.location_data
            results == loc_out.verification_methods
        IN  /\ DOMAIN results = MethodSet
            /\ \A m \in MethodSet :
                  results[m] = IF MethodRaises(m, ld) THEN FailedMethodResult
                               ELSE MethodResult(m, ld)
            /\ loc_out.overall_confidence =
                  C11_Contribution("gps", ld) + C11_Contribution("wifi", ld)
                  + C11_Contribution("cell", ld) + C11_Contribution("bluetooth", ld)
                  + C11_Contribution("ip", ld)

\* gps and cell raise; wifi, between them, and bluetooth, after them, count
C11_Witness ==
    /\ loc_out.status = "returned"
    /\ loc_out.verification_methods["gps"].failed
    /\ loc_out.verification_methods["cell"].failed
    /\ loc_out.verification_methods["wifi"].confidence > 0
    /\ loc_out.verification_methods["bluetooth"].confidence > 0
    /\ loc_out.overall_confidence =
          loc_out.verification_methods["wifi"].confidence * method_weights["wifi"]
          + loc_out.verification_methods["bluetooth"].confidence
            * method_weights["bluetooth"]
          + loc_out.verification_methods["ip"].confidence * method_weights["ip"]

\* all five methods raise and the call still returns
C11_AllFail ==
    /\ loc_out.status = "returned"
    /\ \A m \in MethodSet : loc_out.verification_methods[m].failed

\* C17: for every location_data, each of the five per-method confidences
\* and the overall_confidence that comprehensive_location_verification
\* returns lie in [0,1], whatever the size of the input (many cell towers,
\* many WiFi networks).
C17_ConfidencesInUnitInterval ==
    loc_out.status = "returned" =>
        /\ \A m \in MethodSet :
              /\ 0 <= loc_out.verification_methods[m].confidence
              /\ loc_out.verification_methods[m].confidence <= 1000
        /\ 0 <= loc_out.overall_confidence
        /\ loc_out.overall_confidence <= 100000

\* nine strong towers, whose points add up to 1.6 before the cap, beside a
\* GPS fix and a WiFi scan that both reach 1.0
C17_Witness ==
    /\ loc_out.status = "returned"
    /\ Len(loc_out.location_data.cell.towers) = ManyTowers
    /\ 500 + TowerSignalPoints(loc_out.location_data.cell.towers) + 200 > 1000
    /\ loc_out.verification_methods["cell"].confidence = 800
    /\ loc_out.verification_methods["gps"].confidence = 1000
    /\ loc_out.verification_methods["wifi"].confidence = 1000
-----------------------------------------------------------------------------
(* Claims about AnomalyDetector, checked under SpecAnomaly                  *)

\* C12: when the outlier model raises during detect_behavior_anomalies the
\* call does not fail and is not retried: the model is asked once and the
\* call returns anomaly_score 0.5, is_anomaly False, confidence 0.0,
\* anomaly_type 'detection_failed'.
C12_NeutralResultNoRetry ==
    [][(ndetections' = ndetections + 1 /\ OutlierModelRaises(anomaly_model))
          => /\ anomaly_out'.status = "returned"
             /\ anomaly_out'.result.anomaly_score = 500
             /\ anomaly_out'.result.is_anomaly = FALSE
             /\ anomaly_out'.result.confidence = 0
             /\ anomaly_out'.result.anomaly_type = "detection_failed"
             /\ anomaly_model_calls' = anomaly_model_calls + 1]_vars

\* a second call met the raising model, for a player whose features would
\* have been classified as unnatural speed
C12_Witness ==
    /\ ndetections = 2
    /\ anomaly_model_calls = 2
    /\ anomaly_out.status = "returned"
    /\ anomaly_out.model_raised
    /\ anomaly_out.player_data.avg_solving_time = 10
    /\ anomaly_out.player_data.success_rate = 1000
    /\ anomaly_out.result = DetectionFailed

-----------------------------------------------------------------------------
(* Claims about GeminiService, checked under SpecGemini                     *)

\* C13 as stated: there is no circuit breaking; after failed calls, one of
\* which reached the external API, the following generate_content call
\* still attempts the external API.
C13_FailedCallHasNoEffect ==
    [][(ngemini_calls' = ngemini_calls + 1
        /\ gemini_failures > 0 /\ gemini_api_calls > 0)
          => gemini_out'.attempted]_vars

\* C13, amended: a failed generate_content call switches the service off
\* for good: after a failed call no later call attempts the external API,
\* each raises before reaching it.
C13_FailedCallSwitchesOff ==
    [][ngemini_calls' = ngemini_calls + 1
          => /\ gemini_out'.status = "raised" => gemini_available' # "yes"
             /\ gemini_failures > 0
                   => /\ gemini_available # "yes"
                      /\ gemini_out'.status = "raised"
                      /\ ~gemini_out'.attempted
                      /\ gemini_api_calls' = gemini_api_calls]_vars

\* an answered call, a call the API failed, then a call turned away
C13_Witness ==
    /\ ngemini_calls = 3
    /\ gemini_api_calls = 2
    /\ gemini_failures = 2
    /\ gemini_available = "no"
    /\ gemini_out.status = "raised"
    /\ gemini_out.error = "Gemini service not available"
    /\ ~gemini_out.attempted

-----------------------------------------------------------------------------
(* Further claims about comprehensive_verification (SpecVerify)             *)

\* what the five sub-checks yield for the request, taken one by one
C14_Outcomes ==
    [c \in SubChecks |-> SubCheckOutcome(c, ver_in.player_data, ver_in.location_data)]

\* C14: the five sub-checks have no ordering dependency and write no shared
\* state: in whatever order they complete, each yields what it yields on
\* its own, the answer is the one the inputs determine, and trust_scores
\* and behavior_baselines stay as __init__ left them.
C14_OrderIndependent ==
    /\ ba_trust_scores = <<>>
    /\ ba_behavior_baselines = <<>>
    /\ ver_pc # "idle" =>
          \A c \in SubChecks :
              ver_results[c].status # "pending" => ver_results[c] = C14_Outcomes[c]
    /\ ver_pc = "done" =>
          ver_out = IF CompositeTrustRaises(C14_Outcomes) THEN Http500
                    ELSE CombineResults(C14_Outcomes)

\* a verification that ran to its answer, with a finding from the behavior
\* check and one from the location check in it
C14_Witness ==
    /\ ver_pc = "done"
    /\ ver_out.status = "success"
    /\ ver_out.risk_factors = <<"location_spoofing_suspected", "suspicious_learning_pattern">>
    /\ ba_trust_scores = <<>>

\* the last task of the list has completed while the first is still pending
C14_OutOfOrder ==
    /\ ver_pc = "gathering"
    /\ ver_results["social"].status = "ok"
    /\ ver_results["behavior"].status = "pending"

-----------------------------------------------------------------------------
(* Claims about the movement checks, checked under SpecMove                 *)

\* the leg ending at point i is faster than 50 m/s, and not faster than
\* 500 km/h by either distance formula
C15_InBand(h, i) ==
    LET time_diff == h[i].timestamp - h[i - 1].timestamp
    IN  /\ time_diff > 0
        /\ lv_calculate_distance(h[i - 1], h[i]) > 50 * time_diff
        /\ ba_calculate_haversine_distance(h[i - 1], h[i]) * 36 <= 5000 * time_diff
        /\ fd_calculate_distance(h[i - 1], h[i]) * 36 <= 5000 * time_diff

C15_NoneAbove500Kmh(h) ==
    \A i \in 2..Len(h) :
        LET time_diff == h[i].timestamp - h[i - 1].timestamp
        IN  time_diff > 0 =>
               /\ ba_calculate_haversine_distance(h[i - 1], h[i]) * 36 <= 5000 * time_diff
               /\ fd_calculate_distance(h[i - 1], h[i]) * 36 <= 5000 * time_diff

C15_AllReturned ==
    /\ move_lv.status = "returned"
    /\ move_fd.status = "returned"
    /\ move_ba.status = "returned"

\* C15: the speed cutoffs differ across modules: a leg faster than 50 m/s
\* but not faster than 500 km/h is penalised as unnatural by
\* verify_movement_patterns, while _check_impossible_movements and
\* _verify_movement_plausibility do not flag it.
C15_CutoffsDiffer ==
    (/\ C15_AllReturned
     /\ Len(move_history) >= 3
     /\ \E i \in 2..Len(move_history) : C15_InBand(move_history, i)
     /\ C15_NoneAbove500Kmh(move_history))
        => /\ move_lv.result.speed_issues >= 1
           /\ move_lv.result.confidence <= 50000
           /\ move_fd.result = FALSE
           /\ move_ba.result = 1000

\* rest, then one degree of the equator in 1000 s (111 m/s, 400 km/h)
C15_Witness ==
    /\ C15_AllReturned
    /\ Len(move_history) = 3
    /\ C15_InBand(move_history, 3)
    /\ C15_NoneAbove500Kmh(move_history)
    /\ move_lv.result.speed_issues = 1
    /\ ~move_lv.result.natural_movement
    /\ move_fd.result = FALSE
    /\ move_ba.result = 1000

-----------------------------------------------------------------------------
(* Further claims about generate_contextual_clue (SpecClue)                 *)

\* the clue carries crypto_proof with its four members
C16_HasProof(clue) ==
    /\ "crypto_proof" \in DOMAIN clue
    /\ DOMAIN clue.crypto_proof = {"hash", "hmac", "timestamp", "location_commitment"}

\* C16: every clue written to the cache already carries its integrity stamp
\* and is written with the fixed TTL of 3600 s; so every clue the operation
\* returns, freshly generated or served from the cache, contains
\* crypto_proof (hash, hmac, timestamp, location_commitment).
C16_StampedBeforeCached ==
    clue_out.status = "returned" =>
        /\ C16_HasProof(clue_out.clue)
        /\ ~clue_out.hit =>
              /\ clue_out.cache_key \in DOMAIN clue_cache
              /\ clue_cache[clue_out.cache_key].expires_at = clue_out.at + 3600
              /\ json_loads(clue_cache[clue_out.cache_key].value) = clue_out.clue

\* a clue generated at 1800 s, cached until 5400 s and served from the
\* cache at 3600 s with its stamp
C16_Witness ==
    /\ clue_out.status = "returned"
    /\ clue_out.hit
    /\ clue_out.at = 3600
    /\ clue_cache[clue_out.cache_key].expires_at = 5400
    /\ C16_HasProof(clue_out.clue)
    /\ clue_out.clue.crypto_proof.timestamp # <<>>

-----------------------------------------------------------------------------
(* Claims about the haversine functions, checked under SpecDistance         *)

C18_Identical == dist_pair[1] = dist_pair[2]

C18_Antipodal ==
    /\ dist_pair[1].lat = -dist_pair[2].lat
    /\ Abs(dist_pair[1].lon - dist_pair[2].lon) = 180

\* half the circumference of a sphere of radius 6371000 m, within 1 km
C18_AboutHalfCircumference(distance) ==
    20014086 <= distance /\ distance <= 20016086

\* C18: the distance between two identical coordinates is 0, and the
\* haversine distance between antipodal points is about half the Earth's
\* circumference (about 20,015 km), in _calculate_distance and in
\* _calculate_haversine_distance alike.
C18_IdenticalZeroAntipodalHalf ==
    (dist_pair # <<>> /\ dist_lv.status = "returned" /\ dist_ba.status = "returned")
        => /\ C18_Identical => dist_lv.distance = 0 /\ dist_ba.distance = 0
           /\ C18_Antipodal => /\ C18_AboutHalfCircumference(dist_lv.distance)
                               /\ C18_AboutHalfCircumference(dist_ba.distance)

-----------------------------------------------------------------------------
(* Claims about repeated scoring of one player, checked under SpecDecay      *)

\* this step is a call of calculate_trust_score for player p that returns
C19_ReturningCall(p) ==
    /\ ncalls' = ncalls + 1
    /\ trust_out'.status = "returned"
    /\ trust_out'.player_id = p

\* C19 (as stated): every call resets the stored timestamp, so that in any
\* sequence of calls for one player in which consecutive calls are less
\* than 24 hours apart no decay is ever applied.
C19_NoDecayWhileCallsAreClose ==
    (/\ trust_out.status = "returned"
     /\ trust_out.player_id \in PlayerIds
     /\ call_times[trust_out.player_id].close)
        => trust_out.decayed = trust_out.raw

\* C19: the decay exponent applied by a call that returns is the number of
\* whole days between that call and the immediately preceding call for the
\* same player that returned: the first such call applies no decay, and a
\* call less than 24 hours after the preceding returning call applies none,
\* however long ago the player's first call was.
C19_ExponentSincePrecedingScoring ==
    [][\A p \in PlayerIds :
         C19_ReturningCall(p) =>
            LET ct == call_times[p]
                whole_days == (now - ct.last_scoring) \div TicksPerDay
            IN  /\ ~ct.was_scored => trust_out'.decayed = trust_out'.raw
                /\ ct.was_scored =>
                      trust_out'.decayed = Decay(trust_out'.raw, whole_days)
                /\ (ct.was_scored /\ now - ct.last_scoring < TicksPerDay) =>
                      trust_out'.decayed = trust_out'.raw]_vars

\* a call returned undecayed a day or more after the player's first call,
\* every call for the player having come less than a day after the one before
C19_Witness ==
    /\ trust_out.status = "returned"
    /\ trust_out.player_id \in PlayerIds
    /\ trust_out.had_prior
    /\ call_times[trust_out.player_id].close
    /\ call_times[trust_out.player_id].last = trust_out.at
    /\ trust_out.at - call_times[trust_out.player_id].first >= TicksPerDay
    /\ trust_out.decayed = trust_out.raw

-----------------------------------------------------------------------------
(* Claims about mock providers, checked under SpecLocation                   *)

C20_MockReported ==
    loc_out.status = "returned" /\ loc_out.location_data.gps.is_mock_provider

\* with a mock provider the call never returns verified = True
C20_MockNeverVerified == C20_MockReported => ~loc_out.verified

\* with a mock provider 'mock_location_detected' is among risk_factors
C20_MockListed ==
    C20_MockReported =>
        \E i \in 1..Len(loc_out.risk_factors) :
            loc_out.risk_factors[i] = "mock_location_detected"

\* C20: for every location_data with gps.is_mock_provider true, whatever the
\* other GPS, WiFi, cell, Bluetooth and IP signals are,
\* comprehensive_location_verification returns verified = False and lists
\* 'mock_location_detected' among risk_factors.
C20_MockNeverVerifiedAndListed == C20_MockNeverVerified /\ C20_MockListed

-----------------------------------------------------------------------------
(* Claims about failing and anonymous scoring calls (SpecDecay)              *)

\* C21: a calculate_trust_score call that fails while computing one of the
\* six component scores leaves trust_history exactly as it was; a call
\* whose player_data has no player_id returns the undecayed score and
\* leaves trust_history unchanged.
C21_FailedOrAnonymousCallKeepsHistory ==
    [][ncalls' = ncalls + 1 =>
          /\ trust_out'.status = "raised" =>
                /\ trust_out'.error \in SeqRange(ComponentOrder)
                /\ trust_history' = trust_history
          /\ (trust_out'.status = "returned" /\ trust_out'.player_id = NoPlayer) =>
                /\ trust_history' = trust_history
                /\ trust_out'.decayed = trust_out'.raw
                /\ trust_out'.trust_score = Max(0, Min(1000, trust_out'.raw))]_vars

\* the last of the six components failed in a call for a player whose
\* entry was written a day or more earlier and has stayed as it was
C21_Witness ==
    /\ trust_out.status = "raised"
    /\ trust_out.error = "temporal_patterns"
    /\ trust_out.player_id \in DOMAIN trust_history
    /\ trust_history[trust_out.player_id].timestamp + TicksPerDay <= trust_out.at

-----------------------------------------------------------------------------
(* Claims about timestamps that do not advance (SpecMove)                    *)

\* the consecutive pairs of the submitted history whose timestamps advance
C22_AdvancingPairs ==
    {i \in 2..Len(move_history) :
        move_history[i].timestamp > move_history[i - 1].timestamp}

\* C22: in every movement check a consecutive pair of points whose
\* timestamp difference is zero or negative is never counted as an
\* impossible or unnatural movement, whatever the distance between the
\* points: no check counts more pairs than there are pairs whose timestamps
\* advance.
C22_StalePairsNotCounted ==
    LET advancing == Cardinality(C22_AdvancingPairs)
        steps == Len(move_history) - 1
    IN  /\ move_lv.status = "returned" =>
              move_lv.result.speed_issues <= advancing
        /\ move_pa.status = "returned" => move_pa.result <= advancing
        /\ move_fd.status = "returned" => (move_fd.result => advancing > 0)
        /\ move_ba.status = "returned" =>
              move_ba.result >=
                 Max(100, (Halved(1000, advancing) * (steps - advancing)) \div steps)

\* three legs of one degree each, none with an advancing timestamp, one of
\* them stamped earlier than the fix before: no check counted any of them
C22_Witness ==
    /\ move_lv.status = "returned" /\ move_pa.status = "returned"
    /\ move_fd.status = "returned" /\ move_ba.status = "returned"
    /\ Len(move_history) = 4
    /\ C22_AdvancingPairs = {}
    /\ \E i \in 2..4 : move_history[i].timestamp < move_history[i - 1].timestamp
    /\ \E i \in 2..4 : move_history[i].timestamp = move_history[i - 1].timestamp
    /\ \A i \in 2..4 : move_history[i].lon # move_history[i - 1].lon
    /\ move_lv.result.speed_issues = 0
    /\ move_pa.result = 0
    /\ move_fd.result = FALSE
    /\ move_ba.result = 1000

-----------------------------------------------------------------------------
(* Claims about _generate_clue_variants (SpecVariants)                       *)

\* the LLM calls of the generation that answered
C23_LlmAnswers ==
    (IF UsesGpt4(variants_out.clue_type) /\ variants_out.gpt.ok THEN 1 ELSE 0)
    + (IF UsesGemini(variants_out.clue_type) /\ variants_out.gemini.ok THEN 1 ELSE 0)

\* C23: _generate_clue_variants always returns a non-empty list: for every
\* clue type and every combination of GPT-4 and Gemini failures, if no LLM
\* variant was produced exactly one built-in simple fallback clue is
\* returned, so best-variant selection never sees an empty list and the
\* generation does not fail because of LLM errors.
C23_VariantsNeverEmpty ==
    variants_out.status # "none" =>
        /\ variants_out.status = "returned"
        /\ Len(variants_out.variants) >= 1
        /\ C23_LlmAnswers = 0 =>
              /\ Len(variants_out.variants) = 1
              /\ variants_out.variants[1].type = "simple"
              /\ variants_out.variants[1].text = base_clues(variants_out.clue_type)
              /\ variants_out.best_type = "simple"
        /\ C23_LlmAnswers > 0 =>
              /\ Len(variants_out.variants) = C23_LlmAnswers
              /\ \A i \in 1..Len(variants_out.variants) :
                    variants_out.variants[i].type \in {"gpt4", "gemini"}
              /\ variants_out.best_type \in {"gpt4", "gemini"}

\* a puzzle for which GPT-4 and Gemini both failed: the fallback alone
C23_Witness ==
    /\ variants_out.status = "returned"
    /\ variants_out.clue_type = "puzzle"
    /\ ~variants_out.gpt.ok /\ ~variants_out.gemini.ok
    /\ Len(variants_out.variants) = 1
    /\ variants_out.variants[1].type = "simple"


\* C24: every capped history keeps only its most recent entries.  A
\* player's behavior_history has length min(updates, 100) and update_count
\* equals the number of updates; each per-player per-pattern history has at
\* most 100 records, each global pattern list at most 1000 timestamps and
\* prompt_history at most 100 entries; what is kept are the latest arrivals,
\* in arrival order.
C24_LatestOf(arrivals, history) ==
    \A i \in 1..Len(history) :
        history[i].timestamp = arrivals[Len(arrivals) - Len(history) + i]

C24_CappedHistoriesKeepLatest ==
    /\ \A p \in ProfilePlayers :
          IF p \in DOMAIN behavior_profiles
          THEN /\ behavior_profiles[p].update_count = Len(profile_arrivals[p])
               /\ Len(behavior_profiles[p].behavior_history) =
                     Min(Len(profile_arrivals[p]), 100)
               /\ C24_LatestOf(profile_arrivals[p], behavior_profiles[p].behavior_history)
          ELSE profile_arrivals[p] = <<>>
    /\ \A p \in DOMAIN player_patterns : \A n \in DOMAIN player_patterns[p] :
          /\ Len(player_patterns[p][n]) = Min(nanalyses, 100)
          /\ \A i \in 1..Len(player_patterns[p][n]) :
                player_patterns[p][n][i].timestamp =
                    nanalyses - Len(player_patterns[p][n]) + i
    /\ \A n \in DOMAIN global_patterns :
          /\ Len(global_patterns[n]) <= 1000
          /\ Len(global_patterns[n]) \in {0, Min(nanalyses, 1000)}
          /\ \A i \in 1..Len(global_patterns[n]) :
                global_patterns[n][i] = nanalyses - Len(global_patterns[n]) + i
    /\ Len(prompt_history) = Min(Len(prompt_arrivals), 100)
    /\ C24_LatestOf(prompt_arrivals, prompt_history)

\* every store has been filled past its cap in some run: here the pattern
\* stores, after 1001 analyses of which the first has been dropped
C24_Witness ==
    /\ nanalyses = 1001
    /\ Len(global_patterns["speed_hacking"]) = 1000
    /\ global_patterns["speed_hacking"][1] = 2
    /\ Len(player_patterns["p1"]["speed_hacking"]) = 100
    /\ player_patterns["p1"]["speed_hacking"][1].timestamp = 902


\* C25: a function wrapped by retry_on_exception(max_retries = n, delay = d)
\* with n >= 1 is invoked at most n times.  The result of the first attempt
\* that returns is returned and nothing is invoked after it; a failed attempt
\* that is not the n-th is followed by a wait of d * 2^k (k the 0-based
\* attempt) and by another attempt; when all n attempts raise, the exception
\* of the n-th is propagated.
C25_Invocations == {i \in 1..Len(retry_trace) : retry_trace[i].event = "invoke"}

C25_RetriesWithBackoff ==
    (retry_run.pc # "idle" /\ retry_run.max_retries >= 1) =>
        /\ Cardinality(C25_Invocations) <= retry_run.max_retries
        /\ \A i \in C25_Invocations :
              /\ retry_trace[i].attempt = Cardinality({j \in C25_Invocations : j < i})
              /\ retry_trace[i].outcome = "returned" =>
                    /\ i = Len(retry_trace)
                    /\ retry_run.pc = "returned"
                    /\ retry_run.outcome = "result"
                    /\ retry_run.of_attempt = retry_trace[i].attempt
              /\ (/\ retry_trace[i].outcome = "Exception"
                  /\ retry_trace[i].attempt + 1 < retry_run.max_retries) =>
                    /\ i < Len(retry_trace)
                    /\ retry_trace[i + 1].event = "sleep"
                    /\ retry_trace[i + 1].outcome = "slept"
                    /\ retry_trace[i + 1].seconds =
                          retry_run.delay * 2^(retry_trace[i].attempt)
                    /\ i + 1 = Len(retry_trace) => retry_run.pc = "try"
                    /\ i + 1 < Len(retry_trace) => retry_trace[i + 2].event = "invoke"
        /\ (/\ Cardinality(C25_Invocations) = retry_run.max_retries
            /\ \A i \in C25_Invocations : retry_trace[i].outcome # "returned") =>
              /\ retry_run.pc = "raised"
              /\ retry_run.of_attempt = retry_run.max_retries - 1
              /\ retry_run.outcome = retry_trace[Len(retry_trace)].outcome
        /\ retry_run.pc = "returned" =>
              retry_trace[Len(retry_trace)].outcome = "returned"


\* C26: the /detect-fraud-patterns endpoint records a suspicious activity
\* if and only if the fraud risk_score is above 0.7.  risk_score is the
\* largest catalog risk among the detected patterns (0 when none), so an
\* entry is recorded exactly when location_spoofing or automation_detection
\* is detected, and never when only multiple_accounts (0.7) and
\* collaborative_cheating (0.6) are.
C26_Recorded ==
    \E h \in DOMAIN suspicious_activities :
        /\ suspicious_activities[h].timestamp = fraud_out.at
        /\ suspicious_activities[h].activity_type = "high_risk_fraud"
        /\ suspicious_activities[h].details = fraud_out.fraud_analysis

C26_Detected == SeqRange(fraud_out.fraud_analysis.detected_patterns)

C26_RecordedIffAboveSevenTenths ==
    fraud_out.status = "returned" =>
        /\ C26_Recorded <=> fraud_out.fraud_analysis.risk_score > 700
        /\ fraud_out.fraud_analysis.risk_score =
              IF "automation_detection" \in C26_Detected THEN 900
              ELSE IF "location_spoofing" \in C26_Detected THEN 800
              ELSE IF "multiple_accounts" \in C26_Detected THEN 700
              ELSE IF "collaborative_cheating" \in C26_Detected THEN 600
              ELSE 0
        /\ C26_Recorded <=>
              \/ "location_spoofing" \in C26_Detected
              \/ "automation_detection" \in C26_Detected

\* after a recorded call, a call that detects multiple_accounts and
\* collaborative_cheating only: risk 0.7, nothing recorded
C26_Witness ==
    /\ fraud_out.status = "returned"
    /\ fraud_out.at = 2
    /\ fraud_out.fraud_analysis.detected_patterns =
          <<"multiple_accounts", "collaborative_cheating">>
    /\ fraud_out.fraud_analysis.risk_score = 700
    /\ \E h \in DOMAIN suspicious_activities :
          /\ suspicious_activities[h].timestamp = 1
          /\ suspicious_activities[h].activity_type = "high_risk_fraud"
          /\ suspicious_activities[h].details.risk_score = 800
    /\ ~C26_Recorded

\* C27: the same-device check of FraudDetector is unreachable.  After any
\* sequence of detect_fraud_patterns and log_suspicious_activity calls no
\* entry of suspicious_activities carries an account_count, so no result
\* reports "Same device used for N accounts", and multiple_accounts is
\* detected only through similar_players (> 3) or players_per_ip (> 5).
C27_AccountEvidence ==
    IF "multi_account" \in DOMAIN fraud_out.fraud_analysis.evidence
    THEN fraud_out.fraud_analysis.evidence["multi_account"] ELSE <<>>

C27_SameDeviceNeverReported ==
    /\ \A h \in DOMAIN suspicious_activities :
          "account_count" \notin DOMAIN suspicious_activities[h]
    /\ fraud_out.status = "returned" =>
          /\ \A i \in 1..Len(C27_AccountEvidence) :
                C27_AccountEvidence[i].text # "Same device used for N accounts"
          /\ "multiple_accounts" \in SeqRange(fraud_out.fraud_analysis.detected_patterns) =>
                \E i \in 1..Len(C27_AccountEvidence) :
                    \/ /\ C27_AccountEvidence[i].text =
                             "Similar behavior patterns with N other players"
                       /\ C27_AccountEvidence[i].value > 3
                    \/ /\ C27_AccountEvidence[i].text =
                             "Multiple players from same IP address"
                       /\ C27_AccountEvidence[i].value > 5

\* a request whose device fingerprint is the digest of a logged entry, the
\* entry's details naming five accounts
C27_Witness ==
    /\ fraud_out.status = "returned"
    /\ fraud_out.device_fingerprint \in DOMAIN suspicious_activities
    /\ suspicious_activities[fraud_out.device_fingerprint].details = [account_count |-> 5]
    /\ fraud_out.fraud_analysis.detected_patterns = <<"multiple_accounts">>


\* the number a coordinate stands for, in units of 1e-5
C28_Number(c) ==
    (IF c.neg THEN -1 ELSE 1)
    * (c.whole * 100000
       + SumSeq([i \in 1..Len(c.frac) |-> c.frac[i] * 10^(5 - i)]))

\* the two requests agree on lat, lon, level and theme
C28_Agree(r1, r2) ==
    /\ C28_Number(r1.location.lat) = C28_Number(r2.location.lat)
    /\ C28_Number(r1.location.lon) = C28_Number(r2.location.lon)
    /\ r1.player.level = r2.player.level
    /\ r1.hunt_context.theme = r2.hunt_context.theme

\* C28: the clue returned on a cache hit depends only on the location's lat
\* and lon, the player's level and the hunt theme.  Of two requests that
\* agree on these four values, the second within the TTL of the clue the
\* first one generated, the second receives that cached clue, whatever the
\* success_rate, learning_style, cultural_context, difficulty, location name
\* or previous_clues; a hit increments cache_hits and leaves
\* generation_count unchanged.
C28_SameValuesSameCachedClue ==
    /\ \A i \in 1..Len(clue_log), j \in 1..Len(clue_log) :
          (/\ i < j
           /\ ~clue_log[i].hit
           /\ clue_log[j].at < clue_log[i].at + 3600
           /\ C28_Agree(clue_log[i].request, clue_log[j].request)) =>
              /\ clue_log[j].hit
              /\ clue_log[j].clue = clue_log[i].clue
    /\ \A j \in 1..Len(clue_log) :
          clue_log[j].hit =>
              /\ clue_log[j].cache_hits =
                    (IF j = 1 THEN 0 ELSE clue_log[j - 1].cache_hits) + 1
              /\ clue_log[j].generation_count =
                    (IF j = 1 THEN 0 ELSE clue_log[j - 1].generation_count)


\* C28, for requests whose lat and lon also print alike: the part of the
\* claim that holds
C28_SameTextSameCachedClue ==
    \A i \in 1..Len(clue_log), j \in 1..Len(clue_log) :
        (/\ i < j
         /\ ~clue_log[i].hit
         /\ clue_log[j].at < clue_log[i].at + 3600
         /\ C28_Agree(clue_log[i].request, clue_log[j].request)
         /\ Str(clue_log[i].request.location.lat) = Str(clue_log[j].request.location.lat)
         /\ Str(clue_log[i].request.location.lon) = Str(clue_log[j].request.location.lon)) =>
            /\ clue_log[j].hit
            /\ clue_log[j].clue = clue_log[i].clue
            /\ clue_log[j].request # clue_log[i].request =>
                  clue_log[j].cache_hits = clue_log[j - 1].cache_hits + 1

=============================================================================
